---- MODULE Spec2Model ----
(***************************************************************************)
(* Activity Log: webhook ingestion (normalize, dedup, store, notify) and   *)
(* the cross-source correlator, modelled from src/activity_log/router.py,  *)
(* src/tools/activity_log/normalizers.py, src/tools/activity_log/models.py *)
(* and src/activity_log/notifications.py.                                  *)
(*                                                                         *)
(* Time is an integer number of microseconds since the Unix epoch (the     *)
(* resolution of a Python datetime).  The model keeps to the first minutes *)
(* after a UTC midnight so that every product fits TLC's integers; the     *)
(* text comparisons and the floating-point rounding of SQLite's julianday  *)
(* are the same after any UTC midnight of the current era.                 *)
(***************************************************************************)
EXTENDS Integers, Sequences, FiniteSets, TLC

(***************************************************************************)
(* Strings.  A string is the sequence of its atoms: the words, and each    *)
(* separator character (".", "_", "-", ":", ",", " ") as an atom of its    *)
(* own, so that replace, join, concatenation and containment are computed  *)
(* rather than looked up.  "" is the empty sequence.                       *)
(***************************************************************************)
W(word) == <<word>>
Dot == <<".">>
Us == <<"_">>
Dash == <<"-">>
Colon == <<":">>
Comma == <<",">>
Space == <<" ">>

\* s.replace(".", "_")
ReplaceDots(s) == [i \in 1..Len(s) |-> IF s[i] = "." THEN "_" ELSE s[i]]

\* `needle in s` for strings: needle occurs as a run of consecutive atoms.
Contains(s, needle) ==
    \E i \in 0..(Len(s) - Len(needle)) :
        \A j \in 1..Len(needle) : s[i + j] = needle[j]

(***************************************************************************)
(* JSON values as the handlers see them after request.json(): tagged so    *)
(* that a value of one type can stand where another type is expected.      *)
(* A JStr carries a string in the representation above.                    *)
(***************************************************************************)
JNull == [t |-> "null"]
JInt(n) == [t |-> "int", v |-> n]
JStr(s) == [t |-> "str", v |-> s]
JObj(f) == [t |-> "obj", v |-> f]
JList(q) == [t |-> "list", v |-> q]
EmptyDict == JObj(<<>>)

\* Python truthiness, as used by `a or b` and `if x`.
Truthy(x) ==
    CASE x.t = "null" -> FALSE
      [] x.t = "int"  -> x.v # 0
      [] x.t = "str"  -> x.v # <<>>
      [] x.t = "obj"  -> DOMAIN x.v # {}
      [] x.t = "list" -> x.v # <<>>

\* Python `a or b`.
PyOr(a, b) == IF Truthy(a) THEN a ELSE b

\* Whether x.get exists (x.get on anything but a dict raises AttributeError).
IsDict(x) == x.t = "obj"

\* Whether x.replace exists.
IsStr(x) == x.t = "str"

\* dict.get(key, default); only applied to a dict.
Get(o, k, d) == IF k \in DOMAIN o.v THEN o.v[k] ELSE d

\* str(x) / f"{x}" for the scalar values that reach it.
PyStr(x) ==
    CASE x.t = "str"  -> x.v
      [] x.t = "int"  -> W(ToString(x.v))
      [] x.t = "null" -> W("None")
      [] OTHER        -> W(ToString(x.v))

RECURSIVE JoinWith(_, _)
\* sep.join(q) for a sequence q of strings.
JoinWith(sep, q) ==
    IF q = <<>> THEN <<>>
    ELSE IF Len(q) = 1 THEN q[1]
    ELSE q[1] \o sep \o JoinWith(sep, Tail(q))

RECURSIVE KeepTruthy(_)
\* [str(p) for p in parts if p]
KeepTruthy(parts) ==
    IF parts = <<>> THEN <<>>
    ELSE IF Truthy(parts[1]) THEN <<PyStr(parts[1])>> \o KeepTruthy(Tail(parts))
    ELSE KeepTruthy(Tail(parts))

\* raw = f"{prefix}-" + "-".join(str(p) for p in parts if p)
DedupRaw(prefix, parts) == prefix \o Dash \o JoinWith(Dash, KeepTruthy(parts))

\* hashlib.sha1(raw.encode()).hexdigest()[:24]: a one-way function of the
\* hashed string, taken to be collision free.
Sha1Hex24(raw) == <<"sha1(">> \o raw \o <<")">>

\* _dedup_id(prefix, *parts)
DedupId(prefix, parts) == Sha1Hex24(DedupRaw(prefix, parts))

(***************************************************************************)
(* Timestamps.                                                             *)
(***************************************************************************)
\* int(occurred_at.timestamp())
EpochSeconds(us) == us \div 1000000

\* Whether int(ts) succeeds; the payloads of the model carry no numeric string.
IntParsable(x) == x.t = "int"

\* _ts_to_dt(ts): datetime.fromtimestamp(int(ts) / 1000, tz=utc), and
\* datetime.now(utc) when int(ts) raises (an ISO-8601 string among others).
TsToDt(ts, nowUs) == IF IntParsable(ts) THEN ts.v * 1000 ELSE nowUs

\* occurred_at = _ts_to_dt(ts) if ts else datetime.now(timezone.utc)
OccurredAt(ts, nowUs) == IF Truthy(ts) THEN TsToDt(ts, nowUs) ELSE nowUs

(***************************************************************************)
(* Normalizers.  The result is either [exc |-> "none", ev |-> event] or    *)
(* [exc |-> the exception the call raises].                                *)
(***************************************************************************)
Raise(e) == [exc |-> e]
Return(ev) == [exc |-> "none", ev |-> ev]

S_unknown == W("unknown")
S_access_logs_add == W("access") \o Dot \o W("logs") \o Dot \o W("add")
S_access_logs_denied == W("access") \o Dot \o W("logs") \o Dot \o W("denied")
S_access_door_unlock == W("access") \o Dot \o W("door") \o Dot \o W("unlock")
S_access_door_open == W("access") \o Dot \o W("door") \o Dot \o W("open")
S_access_door_close == W("access") \o Dot \o W("door") \o Dot \o W("close")
S_access_door_held_open ==
    W("access") \o Dot \o W("door") \o Dot \o W("held") \o Us \o W("open")
S_access_remote_view_change ==
    W("access") \o Dot \o W("remote") \o Us \o W("view") \o Dot \o W("change")
A_access_granted == W("access") \o Us \o W("granted")
A_access_denied == W("access") \o Us \o W("denied")
A_door_unlocked == W("door") \o Us \o W("unlocked")
A_door_opened == W("door") \o Us \o W("opened")
A_door_closed == W("door") \o Us \o W("closed")
A_door_held_open == W("door") \o Us \o W("held") \o Us \o W("open")
A_remote_view_change == W("remote") \o Us \o W("view") \o Us \o W("change")

\* ACCESS_ACTION_MAP.get(event_type, default)
AccessActionMap(et, default) ==
    CASE et = S_access_logs_add           -> A_access_granted
      [] et = S_access_logs_denied        -> A_access_denied
      [] et = S_access_door_unlock        -> A_door_unlocked
      [] et = S_access_door_open          -> A_door_opened
      [] et = S_access_door_close         -> A_door_closed
      [] et = S_access_door_held_open     -> A_door_held_open
      [] et = S_access_remote_view_change -> A_remote_view_change
      [] OTHER                            -> default

\* f"{first} {last}".strip(), for names without outer blanks.
FullName(first, last) ==
    IF first = <<>> THEN last
    ELSE IF last = <<>> THEN first
    ELSE first \o Space \o last

\* normalize_access(payload), called when the clock reads nowUs.
normalize_access(payload, nowUs) ==
    IF ~IsDict(payload) THEN Raise("AttributeError") ELSE
    LET event_type == PyOr(PyOr(Get(payload, "event", JNull),
                                Get(payload, "type", JNull)), JStr(S_unknown))
        data == Get(payload, "data", payload)
    IN
    IF ~IsDict(data) THEN Raise("AttributeError") ELSE
    LET ts == PyOr(Get(data, "timestamp", JNull), Get(payload, "timestamp", JNull))
        occurred_at == OccurredAt(ts, nowUs)
        actor == Get(data, "actor", EmptyDict)
    IN
    IF ~IsDict(actor) THEN Raise("AttributeError") ELSE
    LET user_id == PyOr(PyOr(Get(actor, "id", JNull), Get(data, "actor_id", JNull)),
                        Get(data, "user_id", JNull))
        first == Get(actor, "first_name", JStr(<<>>))
        last == Get(actor, "last_name", JStr(<<>>))
        user_name == PyOr(PyOr(Get(actor, "display_name", JNull),
                               JStr(FullName(PyStr(first), PyStr(last)))), JNull)
        door == Get(data, "door", EmptyDict)
    IN
    IF ~IsDict(door) THEN Raise("AttributeError") ELSE
    LET location == PyOr(PyOr(Get(door, "name", JNull), Get(data, "door_name", JNull)),
                         Get(data, "location", JNull))
    IN
    IF ~IsStr(event_type) THEN Raise("AttributeError") ELSE
    LET action == AccessActionMap(event_type.v, ReplaceDots(event_type.v))
        event_id == PyOr(Get(data, "id", JNull),
                         JStr(DedupId(W("acc"), <<user_id, event_type,
                                                  JInt(EpochSeconds(occurred_at))>>)))
    IN Return([event_id       |-> PyStr(event_id),
               source         |-> "access",
               event_type     |-> "physical_access",
               raw_event_type |-> event_type,
               user_id        |-> user_id,
               user_name      |-> user_name,
               location       |-> location,
               action         |-> JStr(action),
               metadata_json  |-> payload,
               occurred_at    |-> occurred_at])

S_ring == W("ring")
S_motion == W("motion")
S_smartDetectZone == W("smartDetectZone")
S_smartDetectLine == W("smartDetectLine")
S_recording == W("recording")
S_camera == W("camera")
A_doorbell_ring == W("doorbell") \o Us \o W("ring")
A_motion_detected == W("motion") \o Us \o W("detected")
A_smart_detect == W("smart") \o Us \o W("detect")
A_recording_event == W("recording") \o Us \o W("event")
A_camera_event == W("camera") \o Us \o W("event")

\* PROTECT_ACTION_MAP.get(event_type, event_type), as a JSON value
ProtectActionMap(et) ==
    IF ~IsStr(et) THEN et ELSE
    CASE et.v = S_ring            -> JStr(A_doorbell_ring)
      [] et.v = S_motion          -> JStr(A_motion_detected)
      [] et.v = S_smartDetectZone -> JStr(A_smart_detect)
      [] et.v = S_smartDetectLine -> JStr(A_smart_detect)
      [] et.v = S_recording       -> JStr(A_recording_event)
      [] et.v = S_camera          -> JStr(A_camera_event)
      [] OTHER                    -> et

\* Whether ",".join(x) succeeds: x is a list of strings.
Joinable(x) == x.t = "list" /\ \A i \in 1..Len(x.v) : IsStr(x.v[i])

\* A normalizer that leaves the action at the mapped event type, also when
\* smartDetectTypes names what was detected.
normalize_protect_NoSmart(payload, nowUs) ==
    IF ~IsDict(payload) THEN Raise("AttributeError") ELSE
    LET event_type == PyOr(PyOr(Get(payload, "type", JNull),
                                Get(payload, "event", JNull)), JStr(S_unknown))
        data == Get(payload, "data", payload)
    IN
    IF ~IsDict(data) THEN Raise("AttributeError") ELSE
    LET ts == PyOr(PyOr(Get(data, "start", JNull), Get(data, "timestamp", JNull)),
                   Get(payload, "timestamp", JNull))
        occurred_at == OccurredAt(ts, nowUs)
        camera_id == PyOr(Get(data, "camera", JNull), Get(data, "cameraId", JNull))
        camera_name == PyOr(PyOr(Get(data, "cameraName", JNull),
                                 Get(data, "camera_name", JNull)), camera_id)
        smart_types == Get(data, "smartDetectTypes", JList(<<>>))
    IN
    IF event_type.t \in {"obj", "list"} THEN Raise("TypeError") ELSE
    IF Truthy(smart_types) /\ ~Joinable(smart_types) THEN Raise("TypeError") ELSE
    LET action == ProtectActionMap(event_type)
        event_id == PyOr(Get(data, "id", JNull),
                         JStr(DedupId(W("prot"), <<camera_id, event_type,
                                                   JInt(EpochSeconds(occurred_at))>>)))
    IN Return([event_id       |-> PyStr(event_id),
               source         |-> "protect",
               event_type     |-> "video_event",
               raw_event_type |-> event_type,
               user_id        |-> camera_id,
               user_name      |-> camera_name,
               location       |-> PyOr(camera_name, Get(data, "zone", JNull)),
               action         |-> action,
               metadata_json  |-> payload,
               occurred_at    |-> occurred_at])

\* normalize_protect(payload), called when the clock reads nowUs.
normalize_protect(payload, nowUs) ==
    IF ~IsDict(payload) THEN Raise("AttributeError") ELSE
    LET event_type == PyOr(PyOr(Get(payload, "type", JNull),
                                Get(payload, "event", JNull)), JStr(S_unknown))
        data == Get(payload, "data", payload)
    IN
    IF ~IsDict(data) THEN Raise("AttributeError") ELSE
    LET ts == PyOr(PyOr(Get(data, "start", JNull), Get(data, "timestamp", JNull)),
                   Get(payload, "timestamp", JNull))
        occurred_at == OccurredAt(ts, nowUs)
        camera_id == PyOr(Get(data, "camera", JNull), Get(data, "cameraId", JNull))
        camera_name == PyOr(PyOr(Get(data, "cameraName", JNull),
                                 Get(data, "camera_name", JNull)), camera_id)
        smart_types == Get(data, "smartDetectTypes", JList(<<>>))
    IN
    IF event_type.t \in {"obj", "list"} THEN Raise("TypeError") ELSE
    IF Truthy(smart_types) /\ ~Joinable(smart_types) THEN Raise("TypeError") ELSE
    LET action == IF Truthy(smart_types)
                  THEN JStr(A_smart_detect \o Colon
                            \o JoinWith(Comma, [i \in 1..Len(smart_types.v)
                                                  |-> smart_types.v[i].v]))
                  ELSE ProtectActionMap(event_type)
        event_id == PyOr(Get(data, "id", JNull),
                         JStr(DedupId(W("prot"), <<camera_id, event_type,
                                                   JInt(EpochSeconds(occurred_at))>>)))
    IN Return([event_id       |-> PyStr(event_id),
               source         |-> "protect",
               event_type     |-> "video_event",
               raw_event_type |-> event_type,
               user_id        |-> camera_id,
               user_name      |-> camera_name,
               location       |-> PyOr(camera_name, Get(data, "zone", JNull)),
               action         |-> action,
               metadata_json  |-> payload,
               occurred_at    |-> occurred_at])

(***************************************************************************)
(* Notification rule matching and delivery.                                *)
(***************************************************************************)
\* ActivityWebhookConfig(): the column defaults of a freshly inserted row.
DefaultConfig ==
    [enabled                |-> FALSE,
     webhook_url            |-> JNull,
     webhook_type           |-> JStr(W("slack")),
     event_access_granted   |-> TRUE,
     event_access_denied    |-> TRUE,
     event_door_held_open   |-> FALSE,
     event_person_detected  |-> TRUE,
     event_vehicle_detected |-> FALSE,
     event_doorbell_ring    |-> TRUE,
     event_motion           |-> FALSE]

\* A rule matcher that looks at the event switches only, not at enabled
\* and webhook_url.
should_notify_NoGuard(event, config) ==
    LET action == event.action.v
        source == event.source
    IN \/ /\ source = "access"
          /\ \/ action = A_access_granted /\ config.event_access_granted
             \/ action = A_access_denied /\ config.event_access_denied
             \/ action = A_door_held_open /\ config.event_door_held_open
       \/ /\ source = "protect"
          /\ \/ action = A_doorbell_ring /\ config.event_doorbell_ring
             \/ action = A_motion_detected /\ config.event_motion
             \/ Contains(action, W("person")) /\ config.event_person_detected
             \/ Contains(action, W("vehicle")) /\ config.event_vehicle_detected

\* A rule matcher that compares the whole action with the slug of a single
\* sub-tag instead of looking for the sub-tag in it.
should_notify_WholeSlug(event, config) ==
    IF ~config.enabled \/ ~Truthy(config.webhook_url) THEN FALSE
    ELSE LET action == event.action.v
             source == event.source
         IN \/ /\ source = "access"
               /\ \/ action = A_access_granted /\ config.event_access_granted
                  \/ action = A_access_denied /\ config.event_access_denied
                  \/ action = A_door_held_open /\ config.event_door_held_open
            \/ /\ source = "protect"
               /\ \/ action = A_doorbell_ring /\ config.event_doorbell_ring
                  \/ action = A_motion_detected /\ config.event_motion
                  \/ action = A_smart_detect \o Colon \o W("person")
                        /\ config.event_person_detected
                  \/ action = A_smart_detect \o Colon \o W("vehicle")
                        /\ config.event_vehicle_detected

\* _should_notify(event, config) for a config row and an event whose action
\* is a string.
should_notify(event, config) ==
    IF ~config.enabled \/ ~Truthy(config.webhook_url) THEN FALSE
    ELSE LET action == event.action.v
             source == event.source
         IN \/ /\ source = "access"
               /\ \/ action = A_access_granted /\ config.event_access_granted
                  \/ action = A_access_denied /\ config.event_access_denied
                  \/ action = A_door_held_open /\ config.event_door_held_open
            \/ /\ source = "protect"
               /\ \/ action = A_doorbell_ring /\ config.event_doorbell_ring
                  \/ action = A_motion_detected /\ config.event_motion
                  \/ Contains(action, W("person")) /\ config.event_person_detected
                  \/ Contains(action, W("vehicle")) /\ config.event_vehicle_detected

\* What the POST of send_notification can end in: a status below 300, a
\* status from 300 on, or an exception (timeout, transport error).
PostOutcomes == {"status_ok", "status_error", "exception"}

\* The value send_notification returns for an outcome of its POST.
SendResult(outcome) == outcome = "status_ok"

\* A send_notification whose POST is not wrapped in try/except.
send_notification_NoCatch(event, config, outcome) ==
    IF ~should_notify(event, config)
    THEN [exc |-> "none", posted |-> FALSE, ret |-> FALSE]
    ELSE IF outcome = "exception"
    THEN [exc |-> "ClientError", posted |-> TRUE, ret |-> FALSE]
    ELSE [exc |-> "none", posted |-> TRUE, ret |-> SendResult(outcome)]

\* send_notification(event, config): no POST when the rules do not match;
\* otherwise one POST, whose exceptions `except Exception` turns into False.
\* exc is the exception that leaves the call.
send_notification(event, config, outcome) ==
    IF ~should_notify(event, config)
    THEN [exc |-> "none", posted |-> FALSE, ret |-> FALSE]
    ELSE [exc |-> "none", posted |-> TRUE, ret |-> SendResult(outcome)]

(***************************************************************************)
(* State.                                                                  *)
(***************************************************************************)
VARIABLES
    events,      \* table activity_events: row i has id i (autoincrement)
    configs,     \* table activity_webhook_config, in id order
    now,         \* the wall clock, microseconds
    ticks,       \* how often the clock has advanced
    req,         \* per webhook request: its handler's local state
    deliveries,  \* the outbound POSTs attempted, in order
    corr,        \* the last correlate request and its response
    call,        \* the last call of a helper or read endpoint on its own
    sreq,        \* per settings request: its handler's local state
    shared_client,  \* the global _shared_client: a client or NoClient
    clients,        \* the UniFiClient objects built so far
    unifi_config,   \* row 1 of unifi_config: which credentials it holds
    task            \* per coroutine of the shared session: its local state

webhook_vars == <<events, configs, now, ticks, req, deliveries, corr, call, sreq>>
session_vars == <<shared_client, clients, unifi_config, task>>
vars == <<webhook_vars, session_vars>>

\* _shared_client = None; no row in unifi_config.
NoClient == 0
NoConfig == 0

\* The coroutines of the shared session.
Tasks == {"g1", "g2", "g3", "i1", "s1", "s2"}
IdleTask ==
    [pc |-> "idle", client |-> NoClient, ret |-> NoClient, saved |-> NoConfig,
     overlapped |-> FALSE]

\* The process has just started and nothing was configured.
SessionIdle ==
    /\ shared_client = NoClient
    /\ clients = <<>>
    /\ unifi_config = NoConfig
    /\ task = [t \in Tasks |-> IdleTask]

(***************************************************************************)
(* Bounds of the model.                                                    *)
(***************************************************************************)
MaxBatch == 2
MaxTicks == 1
TickUs == 1000000
StartUs == 1000000
Reqs == {"r1", "r2"}
Sets == {"s1", "s2"}

(***************************************************************************)
(* The event store.                                                        *)
(***************************************************************************)
\* select(ActivityEvent).where(event_id == eid) ... scalar_one_or_none()
SelectByEventId(table, eid) == {i \in 1..Len(table) : table[i].event_id = eid}

\* A table whose event_id column lost its UNIQUE constraint.
UniqueViolation_NoConstraint(table, eid) == FALSE

\* The UNIQUE constraint on activity_events.event_id: an INSERT of a second
\* row with the same event_id fails (sqlalchemy.exc.IntegrityError).
UniqueViolation(table, eid) == \E i \in 1..Len(table) : table[i].event_id = eid

\* ActivityEvent(**event_data) as inserted: id from the autoincrement key,
\* received_at from the column default func.now().
NewRow(table, ev, nowUs) ==
    [id             |-> Len(table) + 1,
     event_id       |-> ev.event_id,
     source         |-> ev.source,
     event_type     |-> ev.event_type,
     raw_event_type |-> ev.raw_event_type,
     user_id        |-> ev.user_id,
     user_name      |-> ev.user_name,
     location       |-> ev.location,
     action         |-> ev.action,
     metadata_json  |-> ev.metadata_json,
     occurred_at    |-> ev.occurred_at,
     received_at    |-> EpochSeconds(nowUs)]

(***************************************************************************)
(* Webhook payloads of the model.                                          *)
(***************************************************************************)
U1 == JStr(W("u1"))
Cam1 == JStr(W("c1"))

\* {"event": "access.logs.add", "data": {"id": "e1", "timestamp": 2000,
\*  "actor": {"id": "u1", "display_name": "Alice"}, "door": {"name": "Front"}}}
AccessGranted ==
    JObj([event |-> JStr(S_access_logs_add),
          data  |-> JObj([id        |-> JStr(W("e1")),
                          timestamp |-> JInt(2000),
                          actor     |-> JObj([id |-> U1,
                                              display_name |-> JStr(W("Alice"))]),
                          door      |-> JObj([name |-> JStr(W("Front"))])])])

\* {"type": "access.logs.denied", "data": {"actor": {"id": "u1"}}}: neither
\* an id nor a timestamp.
AccessDeniedBare ==
    JObj([type |-> JStr(S_access_logs_denied),
          data |-> JObj([actor |-> JObj([id |-> U1])])])

\* "oops": an array element that is no JSON object.
NotAnObject == JStr(W("oops"))

\* {"type": "smartDetectZone", "data": {"id": "p1", "camera": "c1",
\*  "start": 47000, "smartDetectTypes": ["person"]}}
ProtectPerson ==
    JObj([type |-> JStr(S_smartDetectZone),
          data |-> JObj([id               |-> JStr(W("p1")),
                         camera           |-> Cam1,
                         start            |-> JInt(47000),
                         smartDetectTypes |-> JList(<<JStr(W("person"))>>)])])

\* {"type": "motion", "data": "oops"}: data is no object.
ProtectBadData ==
    JObj([type |-> JStr(S_motion), data |-> JStr(W("oops"))])

Items(ep) ==
    IF ep = "access"
    THEN {AccessGranted, AccessDeniedBare, NotAnObject}
    ELSE {ProtectPerson, ProtectBadData}

\* The parsed request bodies: one item, or an array of 1..MaxBatch items
\* (distinct ones: a redelivery comes as another request).
Bodies(ep) ==
    Items(ep) \cup
    {JList(q) : q \in {x \in UNION {[1..n -> Items(ep)] : n \in 1..MaxBatch} :
                          \A i, j \in 1..Len(x) : x[i] = x[j] => i = j}}

\* The bodies POSTed to /activity/api/settings.
SettingsBodies ==
    {JObj([enabled |-> TRUE, webhook_url |-> JStr(W("http://hook"))])}

(***************************************************************************)
(* The webhook handlers webhook_access and webhook_protect, one action per *)
(* stretch of code between two awaits on the database or the network.      *)
(***************************************************************************)
Idle == [pc |-> "idle"]

Normalize(ep, raw, nowUs) ==
    IF ep = "access" THEN normalize_access(raw, nowUs)
    ELSE normalize_protect(raw, nowUs)

\* How the handler counts an item that _store_event returned for.
CountStored(stored) == stored + 1

\* The response of a handler that ran to its return statement.
Ok200(received, stored) ==
    [status |-> 200, exc |-> "none", received |-> received, stored |-> stored]

\* The response when an exception leaves the handler.
Error500(exc) == [status |-> 500, exc |-> exc, received |-> 0, stored |-> 0]

\* raise HTTPException(status_code=400, detail="Invalid JSON")
Error400 == [status |-> 400, exc |-> "HTTPException", received |-> 0, stored |-> 0]

\* A request body that request.json() cannot parse.
BadJson == [t |-> "invalid"]

\* A request arrives: try: payload = await request.json(), except: 400;
\* events = payload if isinstance(payload, list) else [payload]; stored = 0.
\* (No webhook secret is set, so _verify_sig accepts every request.)
\* `todo` is the part of events the loop has not passed yet; `inserted` and
\* `dups` count what _store_event did for this request, and `after` holds
\* the requests that were answered before this one arrived.
StartFrom(r, bodies) ==
    /\ req[r].pc = "idle"
    /\ \E ep \in {"access", "protect"} : \E body \in bodies[ep] \cup {BadJson} :
         LET evs == IF body = BadJson THEN <<>>
                    ELSE IF body.t = "list" THEN body.v ELSE <<body>>
         IN req' = [req EXCEPT ![r] =
                      [pc |-> IF body = BadJson THEN "done" ELSE "loop",
                       ep |-> ep, items |-> evs,
                       todo |-> evs, stored |-> 0, inserted |-> 0, dups |-> 0,
                       norm |-> JNull,
                       resp |-> IF body = BadJson THEN Error400 ELSE JNull,
                       after |-> {x \in Reqs : req[x].pc = "done"}]]
    /\ UNCHANGED <<events, configs, now, ticks, deliveries, corr, call, sreq, session_vars>>

\* A request with one of the bodies of Bodies.
Start(r) == StartFrom(r, [ep \in {"access", "protect"} |-> Bodies(ep)])

\* A _store_event that, on a duplicate, overwrites the stored record with
\* the redelivered one (an upsert) instead of returning.
StoreSelect_Upsert(r) ==
    /\ req[r].pc = "loop"
    /\ req[r].todo # <<>>
    /\ LET q == req[r]
           n == Normalize(q.ep, Head(q.todo), now)
       IN IF n.exc # "none"
          THEN /\ req' = [req EXCEPT ![r].pc = "done", ![r].resp = Error500(n.exc)]
               /\ UNCHANGED events
          ELSE IF SelectByEventId(events, n.ev.event_id) # {}
          THEN /\ req' = [req EXCEPT ![r].todo = Tail(q.todo),
                                     ![r].stored = CountStored(q.stored),
                                     ![r].dups = q.dups + 1]
               /\ events' = [i \in 1..Len(events) |->
                                IF events[i].event_id = n.ev.event_id
                                THEN [NewRow(events, n.ev, now) EXCEPT !.id = i]
                                ELSE events[i]]
          ELSE /\ req' = [req EXCEPT ![r].pc = "commit", ![r].norm = n.ev]
               /\ UNCHANGED events
    /\ UNCHANGED <<configs, now, ticks, deliveries, corr, call, sreq, session_vars>>

\* for raw in events: normalized = normalize_x(raw); if normalized:
\* _store_event: the SELECT by event_id; `if existing: return`, and then
\* stored += 1 in the handler.  An exception of the normalizer leaves the
\* handler.
StoreSelect(r) ==
    /\ req[r].pc = "loop"
    /\ req[r].todo # <<>>
    /\ LET q == req[r]
           n == Normalize(q.ep, Head(q.todo), now)
       IN IF n.exc # "none"
          THEN req' = [req EXCEPT ![r].pc = "done", ![r].resp = Error500(n.exc)]
          ELSE IF SelectByEventId(events, n.ev.event_id) # {}
          THEN req' = [req EXCEPT ![r].todo = Tail(q.todo),
                                  ![r].stored = CountStored(q.stored),
                                  ![r].dups = q.dups + 1]
          ELSE req' = [req EXCEPT ![r].pc = "commit", ![r].norm = n.ev]
    /\ UNCHANGED <<events, configs, now, ticks, deliveries, corr, call, sreq, session_vars>>

\* A _store_event that goes on to the notification before its insert is
\* committed.
CommitInsert_NotifyFirst(r) ==
    /\ req[r].pc = "commit"
    /\ req' = [req EXCEPT ![r].pc = "notify"]
    /\ UNCHANGED <<events, configs, now, ticks, deliveries, corr, call, sreq, session_vars>>

\* evt = ActivityEvent(**event_data); db.add(evt); await db.commit()
CommitInsert(r) ==
    /\ req[r].pc = "commit"
    /\ LET q == req[r] IN
       IF UniqueViolation(events, q.norm.event_id)
       THEN /\ req' = [req EXCEPT ![r].pc = "done",
                                  ![r].resp = Error500("IntegrityError")]
            /\ UNCHANGED events
       ELSE /\ events' = Append(events, NewRow(events, q.norm, now))
            /\ req' = [req EXCEPT ![r].pc = "notify",
                                  ![r].inserted = q.inserted + 1]
    /\ UNCHANGED <<configs, now, ticks, deliveries, corr, call, sreq, session_vars>>

\* config = (select ActivityWebhookConfig limit 1); if config:
\* await send_notification(...); then stored += 1 in the handler.  A
\* delivery records the event, the request, whether the POST succeeded and
\* what send_notification returned.
Notify(r) ==
    /\ req[r].pc = "notify"
    /\ LET q == req[r] IN
       IF configs = <<>>
       THEN /\ UNCHANGED deliveries
            /\ req' = [req EXCEPT ![r].pc = "loop", ![r].todo = Tail(q.todo),
                                  ![r].stored = CountStored(q.stored),
                                  ![r].norm = JNull]
       ELSE \E outcome \in PostOutcomes :
              LET res == send_notification(q.norm, configs[1], outcome) IN
              /\ deliveries' =
                    IF res.posted
                    THEN Append(deliveries,
                                [event_id |-> q.norm.event_id, by |-> r,
                                 ok |-> outcome = "status_ok",
                                 result |-> res.ret])
                    ELSE deliveries
              /\ req' = IF res.exc # "none"
                        THEN [req EXCEPT ![r].pc = "done",
                                         ![r].resp = Error500(res.exc)]
                        ELSE [req EXCEPT ![r].pc = "loop",
                                         ![r].todo = Tail(q.todo),
                                         ![r].stored = CountStored(q.stored),
                                         ![r].norm = JNull]
    /\ UNCHANGED <<events, configs, now, ticks, corr, call, sreq, session_vars>>

\* return {"status": "ok", "received": len(events), "stored": stored}
Respond(r) ==
    /\ req[r].pc = "loop"
    /\ req[r].todo = <<>>
    /\ req' = [req EXCEPT ![r].pc = "done",
                          ![r].resp = Ok200(Len(req[r].items), req[r].stored)]
    /\ UNCHANGED <<events, configs, now, ticks, deliveries, corr, call, sreq, session_vars>>

\* update_settings: _get_or_create_webhook_config, then setattr for every
\* allow-listed key of the body, then commit.
AllowedKeys ==
    {"enabled", "webhook_url", "webhook_type",
     "event_access_granted", "event_access_denied", "event_door_held_open",
     "event_person_detected", "event_vehicle_detected",
     "event_doorbell_ring", "event_motion"}

ApplyBody(config, body) ==
    [k \in DOMAIN config |->
        IF k \in AllowedKeys /\ k \in DOMAIN body.v THEN body.v[k] ELSE config[k]]

\* The row db.add(ActivityWebhookConfig()) inserts: the column defaults and
\* the next autoincrement id.
ConfigRow(table) ==
    [k \in DOMAIN DefaultConfig \cup {"id"} |->
        IF k = "id" THEN Len(table) + 1 ELSE DefaultConfig[k]]

\* update_settings run with no other settings request in flight: the row
\* that _get_or_create_webhook_config inserts is seen by nobody before the
\* update's own commit, so the handler is one step for the webhooks.
UpdateFrom(bodies) ==
    /\ \E body \in bodies :
         LET table == IF configs = <<>> THEN <<ConfigRow(<<>>)>> ELSE configs
         IN configs' = [table EXCEPT ![1] = ApplyBody(table[1], body)]
    /\ configs' # configs
    /\ UNCHANGED <<events, now, ticks, req, deliveries, corr, call, sreq, session_vars>>

UpdateSettings == UpdateFrom(SettingsBodies)

\* Time passes.
Tick ==
    /\ ticks < MaxTicks
    /\ ticks' = ticks + 1
    /\ now' = now + TickUs
    /\ UNCHANGED <<events, configs, req, deliveries, corr, call, sreq, session_vars>>

NoCorr == [called |-> FALSE]
NoCall == [fn |-> "none"]

Init ==
    /\ events = <<>>
    /\ configs = <<>>
    /\ now = StartUs
    /\ ticks = 0
    /\ req = [r \in Reqs |-> Idle]
    /\ deliveries = <<>>
    /\ corr = NoCorr
    /\ call = NoCall
    /\ sreq = [x \in Sets |-> Idle]
    /\ SessionIdle

Next ==
    \/ \E r \in Reqs : Start(r)
    \/ \E r \in Reqs : StoreSelect(r)
    \/ \E r \in Reqs : CommitInsert(r)
    \/ \E r \in Reqs : Notify(r)
    \/ \E r \in Reqs : Respond(r)
    \/ UpdateSettings
    \/ Tick

Spec == Init /\ [][Next]_vars

(***************************************************************************)
(* The correlator, get_correlations: the SQL of the self-join as SQLite    *)
(* evaluates it.                                                           *)
(***************************************************************************)
\* How a DateTime is written to a SQLite column and bound as a parameter:
\* "YYYY-MM-DD HH:MM:SS.ffffff".  A text is <<seconds>> or
\* <<seconds, microseconds>>: the part up to the seconds, and the fraction
\* when the text has one.
StoredText(us) == <<us \div 1000000, us % 1000000>>

SqlNull == <<>>

\* Comparison of two such texts as SQLite compares TEXT (memcmp): a text
\* that is a proper prefix of another one is the smaller.
TextLE(a, b) ==
    \/ a[1] < b[1]
    \/ a[1] = b[1] /\ (Len(a) = 1 \/ (Len(b) = 2 /\ a[2] <= b[2]))

\* SQLite's parse of a time text: an integer number of milliseconds, the
\* fraction rounded to the nearest one.
SqliteMs(text) ==
    text[1] * 1000 + (IF Len(text) = 2 THEN (text[2] + 500) \div 1000 ELSE 0)

\* datetime(text, '+' || n || ' seconds'): "YYYY-MM-DD HH:MM:SS", without a
\* fraction; NULL when the modifier does not parse ('+-1 seconds').
SqliteDatetime(text, n) ==
    IF n < 0 THEN SqlNull ELSE <<(SqliteMs(text) + n * 1000) \div 1000>>

\* x BETWEEN lo AND hi
Between(x, lo, hi) == hi # SqlNull /\ TextLE(lo, x) /\ TextLE(x, hi)

\* julianday(text) is the IEEE double nearest to ms / 86400000.0 days.  For
\* the dates of this era its unit in the last place is 2^-31 day; JulianQ
\* is the value in that unit, counted from the Julian day of the epoch.
\* (ms * 2^21 / 84375, rounded, computed in two steps to stay in range.)
JulianQ(text) ==
    LET a == SqliteMs(text) * 2048
        k == a \div 84375
        r == a % 84375
    IN k * 1024 + (2 * r * 1024 + 84375) \div (2 * 84375)

\* CAST((julianday(t2) - julianday(t1)) * 86400 AS INTEGER): the difference
\* and the product are exact in double arithmetic, the cast truncates.
SecondsApart(t1, t2) == ((JulianQ(t2) - JulianQ(t1)) * 675) \div 16777216

\* The ON clause of the join.
JoinOn(e1, e2, window) ==
    /\ e2.id # e1.id
    /\ e2.source # e1.source
    /\ Between(StoredText(e2.occurred_at), StoredText(e1.occurred_at),
               SqliteDatetime(StoredText(e1.occurred_at), window))

\* WHERE e1.occurred_at >= :since
WhereSince(e1, sinceText) == TextLE(sinceText, StoredText(e1.occurred_at))

\* The rows of the join before ORDER BY and LIMIT, as pairs of row ids.
JoinPairs(table, window, sinceText) ==
    {p \in (1..Len(table)) \X (1..Len(table)) :
        /\ JoinOn(table[p[1]], table[p[2]], window)
        /\ WhereSince(table[p[1]], sinceText)}

\* ORDER BY e1.occurred_at DESC.  SQL leaves the order of rows with equal
\* keys to the query plan; plan "asc" emits them by ascending row ids and
\* plan "desc" by descending row ids.
Plans == {"asc", "desc"}
OrderBefore(table, p, q, plan) ==
    LET tp == StoredText(table[p[1]].occurred_at)
        tq == StoredText(table[q[1]].occurred_at)
        idLess == p[1] < q[1] \/ (p[1] = q[1] /\ p[2] < q[2])
    IN IF tp # tq THEN TextLE(tq, tp)
       ELSE IF plan = "asc" THEN idLess ELSE ~idLess

RECURSIVE OrderBy(_, _, _)
OrderBy(table, pairs, plan) ==
    IF pairs = {} THEN <<>>
    ELSE LET m == CHOOSE p \in pairs :
                    \A q \in pairs \ {p} : OrderBefore(table, p, q, plan)
         IN <<m>> \o OrderBy(table, pairs \ {m}, plan)

\* LIMIT n: the first n rows; a negative n is no limit at all (SQLite).
SqlLimit(rows, n) ==
    IF n < 0 THEN rows
    ELSE IF n >= Len(rows) THEN rows
    ELSE SubSeq(rows, 1, n)

\* One row of the result (dict(r) of the mapping).
CorrelationRow(table, p) ==
    LET e1 == table[p[1]]
        e2 == table[p[2]]
    IN [anchor_id        |-> e1.id,
        anchor_source    |-> e1.source,
        anchor_user      |-> e1.user_name,
        anchor_action    |-> e1.action,
        anchor_location  |-> e1.location,
        anchor_time      |-> StoredText(e1.occurred_at),
        related_id       |-> e2.id,
        related_source   |-> e2.source,
        related_user     |-> e2.user_name,
        related_action   |-> e2.action,
        related_location |-> e2.location,
        related_time     |-> StoredText(e2.occurred_at),
        seconds_apart    |-> SecondsApart(StoredText(e1.occurred_at),
                                          StoredText(e2.occurred_at))]

\* The whole statement.
CorrelateSql(table, window, sinceText, limit, plan) ==
    LET rows == SqlLimit(OrderBy(table, JoinPairs(table, window, sinceText), plan),
                         limit)
    IN [i \in 1..Len(rows) |-> CorrelationRow(table, rows[i])]

\* window_seconds: int = Query(60, le=300); limit: int = Query(50, le=200):
\* the bounds FastAPI checks before it calls the handler.
MaxWindow == 300
MaxLimit == 200
QueryValid(window, limit) == window <= MaxWindow /\ limit <= MaxLimit

\* since_dt = datetime.fromisoformat(since) if since
\*            else datetime.now(timezone.utc) - timedelta(hours=24)
NoSince == -1
SinceText(since, nowText) ==
    IF since = NoSince
    THEN <<nowText[1] - 24 * 3600, nowText[2]>>
    ELSE StoredText(since)

(***************************************************************************)
(* The correlator on its own: a store as ingestion leaves it, and one      *)
(* correlate request against it.                                           *)
(***************************************************************************)
MaxStore == 3
CorrNowUs == 60000000

\* The instants at which the events of the store occurred.
CorrTimes == {1999600, 1999700, 2000000, 47000000}

\* The windows, lower bounds and limits the callers ask for.
CorrWindows == {-1, 0, 30, 45, 60, MaxWindow, MaxWindow + 1}
CorrSinces == {NoSince, 1999700, 2000000}
CorrLimits == {-1, 0, 1, 2, MaxLimit, MaxLimit + 1}

\* An event without id and timestamp of its own, received at instant t.
CorrEvent(ep, t) ==
    IF ep = "access"
    THEN normalize_access(AccessDeniedBare, t).ev
    ELSE normalize_protect(
             JObj([type |-> JStr(S_smartDetectZone),
                   data |-> JObj([camera |-> Cam1,
                                  smartDetectTypes |-> JList(<<JStr(W("person"))>>)])]),
             t).ev

CorrEvents == {CorrEvent(ep, t) : ep \in {"access", "protect"}, t \in CorrTimes}

\* The table after the events of q were stored in this order.
TableOf(q) ==
    [i \in 1..Len(q) |->
        [NewRow(<<>>, q[i], q[i].occurred_at) EXCEPT !.id = i]]

\* The stores: up to MaxStore events with distinct event_ids.
CorrStores ==
    {TableOf(q) : q \in {x \in UNION {[1..n -> CorrEvents] : n \in 0..MaxStore} :
                            \A i, j \in 1..Len(x) :
                                x[i].event_id = x[j].event_id => i = j}}

\* GET /activity/api/events/correlate
Correlate ==
    /\ ~corr.called
    /\ \E window \in CorrWindows, since \in CorrSinces,
          limit \in CorrLimits, plan \in Plans :
         corr' = IF ~QueryValid(window, limit)
                 THEN [called |-> TRUE, status |-> 422, window |-> window,
                       since |-> since, limit |-> limit, plan |-> plan,
                       rows |-> <<>>]
                 ELSE [called |-> TRUE, status |-> 200, window |-> window,
                       since |-> since, limit |-> limit, plan |-> plan,
                       rows |-> CorrelateSql(events, window,
                                             SinceText(since, StoredText(now)),
                                             limit, plan)]
    /\ UNCHANGED <<events, configs, now, ticks, req, deliveries, call, sreq, session_vars>>

InitCorr ==
    /\ events \in CorrStores
    /\ configs = <<>>
    /\ now = CorrNowUs
    /\ ticks = 0
    /\ req = [r \in Reqs |-> Idle]
    /\ deliveries = <<>>
    /\ corr = NoCorr
    /\ call = NoCall
    /\ sreq = [x \in Sets |-> Idle]
    /\ SessionIdle

NextCorr == Correlate

SpecCorr == InitCorr /\ [][NextCorr]_vars

(***************************************************************************)
(* Two correlate requests with the same query parameters against a store   *)
(* that no webhook changes in between, the day after the events occurred.  *)
(***************************************************************************)
\* The clock of these requests: `now` counts from the midnight that follows
\* the epoch, so that the requests fall a day after the events of the store.
DayAfter(nowUs) == <<24 * 3600 + EpochSeconds(nowUs), nowUs % 1000000>>

DetWindows == {0, 60}
DetLimits == {1, 2}

\* The first request.  The query plan, and with it the order in which rows
\* of equal anchor time come out, belongs to the database file and stays.
CorrelateFirst ==
    /\ ~corr.called
    /\ \E window \in DetWindows, since \in CorrSinces,
          limit \in DetLimits, plan \in Plans :
         corr' = [called |-> TRUE, status |-> 200, window |-> window,
                  since |-> since, limit |-> limit, plan |-> plan,
                  rows |-> CorrelateSql(events, window,
                                        SinceText(since, DayAfter(now)),
                                        limit, plan),
                  again |-> FALSE, first_rows |-> <<>>]
    /\ UNCHANGED <<events, configs, now, ticks, req, deliveries, call, sreq, session_vars>>

\* The second request: the same window_seconds, since and limit.
CorrelateAgain ==
    /\ corr.called /\ ~corr.again
    /\ corr' = [corr EXCEPT
                  !.again = TRUE,
                  !.first_rows = corr.rows,
                  !.rows = CorrelateSql(events, corr.window,
                                        SinceText(corr.since, DayAfter(now)),
                                        corr.limit, corr.plan)]
    /\ UNCHANGED <<events, configs, now, ticks, req, deliveries, call, sreq, session_vars>>

InitDet ==
    /\ events \in CorrStores
    /\ configs = <<>>
    /\ now = StartUs
    /\ ticks = 0
    /\ req = [r \in Reqs |-> Idle]
    /\ deliveries = <<>>
    /\ corr = NoCorr
    /\ call = NoCall
    /\ sreq = [x \in Sets |-> Idle]
    /\ SessionIdle

NextDet ==
    \/ CorrelateFirst
    \/ CorrelateAgain
    \/ Tick

SpecDet == InitDet /\ [][NextDet]_vars

(***************************************************************************)
(* The rule matcher _should_notify on its own: one call with an event a    *)
(* normalizer emitted and a policy row of the table.                       *)
(***************************************************************************)
AccessTypes ==
    {S_access_logs_add, S_access_logs_denied, S_access_door_unlock,
     S_access_door_open, S_access_door_close, S_access_door_held_open,
     S_access_remote_view_change, W("access") \o Dot \o W("custom")}

ProtectTypes ==
    {S_ring, S_motion, S_smartDetectZone, S_smartDetectLine, S_recording,
     S_camera, W("person"), S_unknown, W("protect") \o Dot \o W("custom")}

\* The values of data.smartDetectTypes; <<>> is the missing key.
SmartTypes ==
    {<<>>, <<"person">>, <<"vehicle">>, <<"person", "vehicle">>,
     <<"vehicle", "person">>, <<"animal">>}

AccessPayload(type) ==
    JObj([event |-> JStr(type), data |-> JObj([id |-> JStr(W("e1"))])])

ProtectPayload(type, tags) ==
    JObj([type |-> JStr(type),
          data |-> IF tags = <<>>
                   THEN JObj([id |-> JStr(W("p1"))])
                   ELSE JObj([id |-> JStr(W("p1")),
                              smartDetectTypes |->
                                  JList([i \in 1..Len(tags) |-> JStr(W(tags[i]))])])])

\* The events the normalizers hand to _store_event for these payloads.
RuleEvents ==
    {normalize_access(AccessPayload(t), StartUs).ev : t \in AccessTypes}
    \cup {normalize_protect(ProtectPayload(t, g), StartUs).ev :
               t \in ProtectTypes, g \in SmartTypes}

\* The boolean switches of a policy row.
Switches ==
    {"event_access_granted", "event_access_denied", "event_door_held_open",
     "event_person_detected", "event_vehicle_detected",
     "event_doorbell_ring", "event_motion"}

\* The rows the policy table can hold after settings updates.
RuleConfigs ==
    {[k \in DOMAIN DefaultConfig |->
         IF k = "enabled" THEN en
         ELSE IF k = "webhook_url" THEN url
         ELSE IF k \in Switches THEN sw[k]
         ELSE DefaultConfig[k]] :
       en \in BOOLEAN,
       url \in {JNull, JStr(<<>>), JStr(W("http://hook"))},
       sw \in [Switches -> BOOLEAN]}

\* send_notification calls _should_notify(event, config).
ShouldNotify ==
    /\ call = NoCall
    /\ sreq = [x \in Sets |-> Idle]
    /\ SessionIdle
    /\ \E event \in RuleEvents, config \in RuleConfigs :
         call' = [fn |-> "_should_notify", event |-> event, config |-> config,
                  result |-> should_notify(event, config)]
    /\ UNCHANGED <<events, configs, now, ticks, req, deliveries, corr, sreq, session_vars>>

NextRule == ShouldNotify

SpecRule == Init /\ [][NextRule]_vars

(***************************************************************************)
(* All endpoints together: webhook requests one after the other, the       *)
(* settings endpoints and the read endpoints.                              *)
(***************************************************************************)
\* The handler returned and the server takes the next webhook request; the
\* model serves further ones while the store holds at most MaxRows records.
MaxRows == 1
Finish(r) ==
    /\ req[r].pc = "done"
    /\ Len(events) <= MaxRows
    /\ req' = [req EXCEPT ![r] = Idle]
    /\ UNCHANGED <<events, configs, now, ticks, deliveries, corr, call, sreq, session_vars>>

\* get_settings run with no other settings request in flight.
GetSettings ==
    /\ configs' = IF configs = <<>> THEN <<ConfigRow(<<>>)>> ELSE configs
    /\ call' = [fn |-> "get_settings", total |-> 0]
    /\ UNCHANGED <<events, now, ticks, req, deliveries, corr, sreq, session_vars>>

\* The handlers that only issue SELECTs: get_events, get_summary,
\* get_correlations and health.  Their responses are no part of the state
\* here, but for health's count of the rows.
ReadEndpoints == {"get_events", "get_summary", "get_correlations", "health"}
\* A read handler that fetched the policy the way get_settings does, through
\* _get_or_create_webhook_config.
ReadEndpoint_GetOrCreate ==
    /\ \E ep \in ReadEndpoints :
         call' = [fn |-> ep, total |-> IF ep = "health" THEN Len(events) ELSE 0]
    /\ configs' = IF configs = <<>> THEN <<ConfigRow(<<>>)>> ELSE configs
    /\ UNCHANGED <<events, now, ticks, req, deliveries, corr, sreq, session_vars>>

ReadEndpoint ==
    /\ \E ep \in ReadEndpoints :
         call' = [fn |-> ep, total |-> IF ep = "health" THEN Len(events) ELSE 0]
    /\ UNCHANGED <<events, configs, now, ticks, req, deliveries, corr, sreq, session_vars>>

NextOps ==
    \/ Start("r1")
    \/ StoreSelect("r1")
    \/ CommitInsert("r1")
    \/ Notify("r1")
    \/ Respond("r1")
    \/ Finish("r1")
    \/ UpdateSettings
    \/ GetSettings
    \/ ReadEndpoint
    \/ Tick

SpecOps == Init /\ [][NextOps]_vars

(***************************************************************************)
(* The settings endpoints on their own: two requests that may overlap, one *)
(* action per stretch of code between two awaits on the database.          *)
(***************************************************************************)
\* The bodies POSTed to /activity/api/settings in this part: with a key
\* outside the allow-list, with `id`, and the empty object.
WriteBodies ==
    SettingsBodies \cup
    {JObj([id |-> 7, secret |-> JStr(W("x")), event_motion |-> TRUE]),
     JObj([webhook_type |-> JStr(W("discord")), enabled |-> FALSE]),
     JObj(<<>>)}

\* GET or POST /activity/api/settings arrives; body = await request.json().
SettingsStart(s) ==
    /\ sreq[s].pc = "idle"
    /\ \/ sreq' = [sreq EXCEPT ![s] = [pc |-> "select", kind |-> "get",
                                       body |-> JNull, row |-> 0, resp |-> JNull]]
       \/ \E body \in WriteBodies :
            sreq' = [sreq EXCEPT ![s] = [pc |-> "select", kind |-> "update",
                                        body |-> body, row |-> 0, resp |-> JNull]]
    /\ UNCHANGED <<events, configs, now, ticks, req, deliveries, corr, call, session_vars>>

\* _get_or_create_webhook_config: result = await db.execute(select(...)
\* .limit(1)); config = result.scalar_one_or_none().  get_settings returns
\* config.to_dict() when there is a row.
SettingsSelect(s) ==
    /\ sreq[s].pc = "select"
    /\ sreq' = IF configs = <<>>
               THEN [sreq EXCEPT ![s].pc = "create"]
               ELSE IF sreq[s].kind = "get"
               THEN [sreq EXCEPT ![s].pc = "done", ![s].row = 1,
                                 ![s].resp = configs[1]]
               ELSE [sreq EXCEPT ![s].pc = "commit", ![s].row = 1]
    /\ UNCHANGED <<events, configs, now, ticks, req, deliveries, corr, call, session_vars>>

\* if not config: config = ActivityWebhookConfig(); db.add(config);
\* await db.commit(); await db.refresh(config)
SettingsCreate(s) ==
    /\ sreq[s].pc = "create"
    /\ configs' = Append(configs, ConfigRow(configs))
    /\ sreq' = IF sreq[s].kind = "get"
               THEN [sreq EXCEPT ![s].pc = "done", ![s].row = Len(configs) + 1,
                                 ![s].resp = ConfigRow(configs)]
               ELSE [sreq EXCEPT ![s].pc = "commit", ![s].row = Len(configs) + 1]
    /\ UNCHANGED <<events, now, ticks, req, deliveries, corr, call, session_vars>>

\* update_settings: setattr for the allow-listed keys of the body,
\* await db.commit(), await db.refresh(config), return config.to_dict().
SettingsCommit(s) ==
    /\ sreq[s].pc = "commit"
    /\ LET n == sreq[s].row
           row == ApplyBody(configs[n], sreq[s].body)
       IN /\ configs' = [configs EXCEPT ![n] = row]
          /\ sreq' = [sreq EXCEPT ![s].pc = "done", ![s].resp = row]
    /\ UNCHANGED <<events, now, ticks, req, deliveries, corr, call, session_vars>>

NextSettings ==
    \/ \E s \in Sets : SettingsStart(s)
    \/ \E s \in Sets : SettingsSelect(s)
    \/ \E s \in Sets : SettingsCreate(s)
    \/ \E s \in Sets : SettingsCommit(s)

SpecSettings == Init /\ [][NextSettings]_vars

(***************************************************************************)
(* The normalizers on their own: one call of normalize_access or           *)
(* normalize_protect with a payload, at some reading of the clock.         *)
(***************************************************************************)
\* "1970-01-01T00:00:SSZ": the ISO-8601 string of an instant that falls on
\* a whole second SS >= 10 of the first minute.
IsoString(us) ==
    W("1970") \o Dash \o W("01") \o Dash \o W("01T00") \o Colon \o W("00")
        \o Colon \o W(ToString(EpochSeconds(us))) \o W("Z")

\* The instants the sources stamp their events with.
SourceInstants == {30000000, 47000000}

\* The timestamp values of the payloads: epoch milliseconds, ISO-8601
\* strings, and a string that is neither.
TsValues ==
    {JInt(us \div 1000) : us \in SourceInstants}
    \cup {JStr(IsoString(us)) : us \in SourceInstants}
    \cup {JStr(W("soon"))}

\* Payloads with the timestamp in data.timestamp, in the payload's own
\* timestamp, in data.start (Protect), or nowhere; payloads with a
\* timestamp and no id of their own; payloads with a null actor and with
\* a number as type; the payloads of the
\* webhook requests; and one payload per event type and list of tags.
NormPayloads(ep) ==
    LET type == IF ep = "access" THEN S_access_logs_add ELSE S_motion
        id == JStr(W("e1"))
    IN {JObj([type |-> JStr(type), data |-> JObj([id |-> id])])}
       \cup {JObj([type |-> JStr(type),
                   data |-> JObj([id |-> id, timestamp |-> ts])]) : ts \in TsValues}
       \cup {JObj([type |-> JStr(type), timestamp |-> ts,
                   data |-> JObj([id |-> id])]) : ts \in TsValues}
       \cup (IF ep = "access" THEN {}
             ELSE {JObj([type |-> JStr(type),
                         data |-> JObj([id |-> id, start |-> ts])]) : ts \in TsValues})
       \cup {JObj([type |-> JStr(type),
                   data |-> JObj([actor |-> JObj([id |-> U1]), camera |-> Cam1,
                                  timestamp |-> ts])]) : ts \in TsValues}
       \cup {JObj([type |-> JStr(type),
                   data |-> JObj([id |-> id, actor |-> JNull])]),
             JObj([type |-> JInt(5), data |-> JObj([id |-> id])])}
       \cup Items(ep)
       \cup (IF ep = "access"
             THEN {AccessPayload(t) : t \in AccessTypes}
             ELSE {ProtectPayload(t, g) : t \in ProtectTypes, g \in SmartTypes})

\* normalized = normalize_access(raw) / normalize_protect(raw)
NormalizeCall ==
    /\ call = NoCall
    /\ \E ep \in {"access", "protect"} : \E payload \in NormPayloads(ep) :
         call' = [fn |-> "normalize", ep |-> ep, payload |-> payload,
                  now |-> now, result |-> Normalize(ep, payload, now)]
    /\ UNCHANGED <<events, configs, now, ticks, req, deliveries, corr, sreq, session_vars>>

NextNorm ==
    \/ NormalizeCall
    \/ Tick

SpecNorm == Init /\ [][NextNorm]_vars

(***************************************************************************)
(* The query API on its own: a store as ingestion leaves it, and one       *)
(* get_events or get_summary request against it.                           *)
(***************************************************************************)
\* The characters that stand alone as atoms in the strings of the model.
OneChar == {"u", "U", "1", ".", "_", "-", ":", ",", " ", "%"}

\* lower(): the capitals of the model's strings.
Lower(a) ==
    CASE a = "U"     -> "u"
      [] a = "Front" -> "front"
      [] a = "FRONT" -> "front"
      [] OTHER       -> a

RECURSIVE LikeMatch(_, _)
\* text LIKE pat after lower() on both sides: "%" stands for any run of
\* characters and "_" for any one character (an atom of OneChar: next to a
\* "_" of a filter the strings of the model hold no longer atom to split).
LikeMatch(text, pat) ==
    IF pat = <<>> THEN text = <<>>
    ELSE IF Head(pat) = "%"
    THEN \/ LikeMatch(text, Tail(pat))
         \/ text # <<>> /\ LikeMatch(Tail(text), pat)
    ELSE /\ text # <<>>
         /\ \/ Head(pat) = "_" /\ Head(text) \in OneChar
            \/ Lower(Head(pat)) = Lower(Head(text))
         /\ LikeMatch(Tail(text), Tail(pat))

\* column.ilike(f"%{x}%"); a NULL column matches nothing.
ILike(value, x) ==
    /\ value.t # "null"
    /\ LikeMatch(PyStr(value), <<"%">> \o x \o <<"%">>)

\* A filter that was not supplied (or is the empty string).
NoFilter == <<>>

\* since / until: absent, a string datetime.fromisoformat rejects, or an
\* ISO-8601 string with wall-clock time `wall` and UTC offset `off` seconds.
Naive == -1
NoTime == [kind |-> "none"]
BadTime == [kind |-> "invalid"]
IsoTime(wall, off) == [kind |-> "iso", wall |-> wall, off |-> off]

\* The text a datetime is bound as: its wall-clock fields, the offset dropped.
BoundText(t) == StoredText(t.wall)

\* Conditions that look the actor filter up in the user_name column.
Where_NameColumn(row, p) ==
    /\ p.source # "" => row.source = p.source
    /\ p.action # NoFilter => ILike(row.action, p.action)
    /\ p.user_id # NoFilter => ILike(row.user_name, p.user_id)
    /\ p.location # NoFilter => ILike(row.location, p.location)
    /\ p.since.kind = "iso" =>
           TextLE(BoundText(p.since), StoredText(row.occurred_at))
    /\ p.until.kind = "iso" =>
           TextLE(StoredText(row.occurred_at), BoundText(p.until))

\* The conditions of get_events on one row.
Where(row, p) ==
    /\ p.source # "" => row.source = p.source
    /\ p.action # NoFilter => ILike(row.action, p.action)
    /\ p.user_id # NoFilter => ILike(row.user_id, p.user_id)
    /\ p.location # NoFilter => ILike(row.location, p.location)
    /\ p.since.kind = "iso" =>
           TextLE(BoundText(p.since), StoredText(row.occurred_at))
    /\ p.until.kind = "iso" =>
           TextLE(StoredText(row.occurred_at), BoundText(p.until))

\* ORDER BY occurred_at DESC; rows of equal occurred_at come out in the
\* order of the query plan.
RowBefore(table, i, j, plan) ==
    LET ti == StoredText(table[i].occurred_at)
        tj == StoredText(table[j].occurred_at)
    IN IF ti # tj THEN TextLE(tj, ti)
       ELSE IF plan = "asc" THEN i < j ELSE i > j

RECURSIVE NewestFirst(_, _, _)
NewestFirst(table, ids, plan) ==
    IF ids = {} THEN <<>>
    ELSE LET m == CHOOSE i \in ids :
                    \A j \in ids \ {i} : RowBefore(table, i, j, plan)
         IN <<m>> \o NewestFirst(table, ids \ {m}, plan)

\* OFFSET k: a negative k counts as zero (SQLite).
SqlOffset(rows, k) ==
    IF k <= 0 THEN rows
    ELSE IF k >= Len(rows) THEN <<>>
    ELSE SubSeq(rows, k + 1, Len(rows))

\* limit: int = Query(100, le=1000)
MaxPage == 1000
PageValid(limit) == limit <= MaxPage

\* get_events(...), as the response it returns.
get_events(table, p, plan) ==
    IF ~PageValid(p.limit) THEN [status |-> 422, exc |-> "none"]
    ELSE IF p.since.kind = "invalid" \/ p.until.kind = "invalid"
    THEN [status |-> 500, exc |-> "ValueError"]
    ELSE LET ids == {i \in 1..Len(table) : Where(table[i], p)}
             page == SqlLimit(SqlOffset(NewestFirst(table, ids, plan), p.offset),
                              p.limit)
         IN [status |-> 200, exc |-> "none",
             total  |-> Cardinality(ids),
             limit  |-> p.limit,
             offset |-> p.offset,
             events |-> [k \in 1..Len(page) |-> table[page[k]]]]

\* .limit(10) of top_users and of recent
SummaryN == 10

\* GROUP BY: the sets of rows of ids that agree on key, a function of the
\* row number.
GroupBy(ids, key) == {{i \in ids : key[i] = key[j]} : j \in ids}

\* .group_by(source, action) and .group_by(user_name, user_id)
SourceAction(table) == [i \in 1..Len(table) |-> <<table[i].source, table[i].action>>]
NameAndId(table) == [i \in 1..Len(table) |-> <<table[i].user_name, table[i].user_id>>]

MinOf(S) == CHOOSE x \in S : \A y \in S : x <= y

\* ORDER BY count DESC; groups of equal count in the order of the plan.
GroupBefore(g, h, plan) ==
    \/ Cardinality(g) > Cardinality(h)
    \/ /\ Cardinality(g) = Cardinality(h)
       /\ IF plan = "asc" THEN MinOf(g) < MinOf(h) ELSE MinOf(g) > MinOf(h)

RECURSIVE OrderByCount(_, _)
OrderByCount(gs, plan) ==
    IF gs = {} THEN <<>>
    ELSE LET m == CHOOSE g \in gs : \A h \in gs \ {g} : GroupBefore(g, h, plan)
         IN <<m>> \o OrderByCount(gs \ {m}, plan)

RECURSIVE SumOf(_, _)
\* totals[row.source] = totals.get(row.source, 0) + row.count, over the rows
SumOf(breakdown, source) ==
    IF breakdown = <<>> THEN 0
    ELSE (IF Head(breakdown).source = source THEN Head(breakdown).count ELSE 0)
         + SumOf(Tail(breakdown), source)

\* get_summary(), asked when the clock reads the text nowText.
get_summary(table, nowText, plan) ==
    LET since_24h == <<nowText[1] - 24 * 3600, nowText[2]>>
        inWindow == {i \in 1..Len(table) :
                        TextLE(since_24h, StoredText(table[i].occurred_at))}
        by_source == OrderByCount(GroupBy(inWindow, SourceAction(table)), plan)
        withUser == {i \in inWindow : table[i].user_id.t # "null"}
        top_users == SqlLimit(OrderByCount(GroupBy(withUser, NameAndId(table)), plan),
                              SummaryN)
        recent == SqlLimit(NewestFirst(table, 1..Len(table), plan), SummaryN)
        breakdown == [k \in 1..Len(by_source) |->
                         [source |-> table[MinOf(by_source[k])].source,
                          action |-> table[MinOf(by_source[k])].action,
                          count  |-> Cardinality(by_source[k])]]
    IN [status        |-> 200,
        totals_24h    |-> [s \in {breakdown[k].source : k \in 1..Len(breakdown)}
                              |-> SumOf(breakdown, s)],
        breakdown     |-> breakdown,
        top_users     |-> [k \in 1..Len(top_users) |->
                              [user_name |-> table[MinOf(top_users[k])].user_name,
                               user_id   |-> table[MinOf(top_users[k])].user_id,
                               count     |-> Cardinality(top_users[k])]],
        recent_events |-> [k \in 1..Len(recent) |-> table[recent[k]]]]

\* Actor ids that differ in one character only.
U_1 == <<"u", "_", "1">>
U1Dash == <<"u", "-", "1">>

\* An Access event with id, timestamp, actor and door of its own.
QueryAccess(id, type, ms, actor, door) ==
    JObj([event |-> JStr(type),
          data  |-> JObj([id |-> JStr(id), timestamp |-> JInt(ms),
                          actor |-> actor, door |-> door])])

Actor(id, name) == JObj([id |-> JStr(id), display_name |-> JStr(name)])
Door(name) == JObj([name |-> JStr(name)])

\* The events of the small stores: two of one actor at one door, one of an
\* actor without name and door, and one of a camera.
QueryEvents ==
    {normalize_access(QueryAccess(W("q1"), S_access_logs_add, 30000,
                                  Actor(U_1, W("Ann")), Door(W("Front"))), 0).ev,
     normalize_access(QueryAccess(W("q2"), S_access_logs_denied, 47000,
                                  JObj([id |-> JStr(U1Dash)]), EmptyDict), 0).ev,
     normalize_access(QueryAccess(W("q4"), S_access_logs_add, 40500,
                                  Actor(U_1, W("Ann")), Door(W("Front"))), 0).ev,
     normalize_protect(ProtectPerson, 0).ev}

MaxQueryStore == 2

\* A store that holds more actors than a summary lists: SummaryN actors
\* with two events each, and one actor with three events whose display
\* name differs from event to event.
BusyEvent(k) ==
    normalize_access(
        QueryAccess(<<"b", ToString(k)>>, S_access_logs_add, 50000 + 1000 * k,
                    IF k <= 2 * SummaryN
                    THEN Actor(<<"a", ToString((k + 1) \div 2)>>,
                               <<"A", ToString((k + 1) \div 2)>>)
                    ELSE Actor(W("z"), <<"Z", ToString(k)>>),
                    EmptyDict), 0).ev

BusyStore == TableOf([k \in 1..(2 * SummaryN + 3) |-> BusyEvent(k)])

\* The stores: up to MaxQueryStore events with distinct event_ids, and the
\* busy one.
QueryStores ==
    {TableOf(q) : q \in {x \in UNION {[1..n -> QueryEvents] : n \in 0..MaxQueryStore} :
                            \A i, j \in 1..Len(x) :
                                x[i].event_id = x[j].event_id => i = j}}
    \cup {BusyStore}

\* The parameters the callers ask with.
QuerySources == {"", "access", "protect"}
QueryActions ==
    {NoFilter, A_access_granted, W("denied"), A_smart_detect \o Colon \o W("person")}
QueryUsers == {NoFilter, U_1, W("U"), W("c1")}
QueryLocations == {NoFilter, W("front")}
QuerySinces == {NoTime, BadTime, IsoTime(40500000, Naive), IsoTime(60000000, 30)}
QueryUntils == {NoTime, IsoTime(47000000, 0)}
QueryLimits == {-1, 0, 1, 100, MaxPage + 1}
QueryOffsets == {-1, 0, 1}

\* The clock of these requests, as in DayAfter.
QueryNowUs == 40000000

\* GET /activity/api/events
GetEvents ==
    /\ call = NoCall
    /\ \E source \in QuerySources, action \in QueryActions, user_id \in QueryUsers,
          location \in QueryLocations, since \in QuerySinces,
          until \in QueryUntils, limit \in QueryLimits, offset \in QueryOffsets,
          plan \in Plans :
         LET p == [source |-> source, action |-> action, user_id |-> user_id,
                   location |-> location, since |-> since, until |-> until,
                   limit |-> limit, offset |-> offset]
         IN call' = [fn |-> "get_events", params |-> p, plan |-> plan,
                     resp |-> get_events(events, p, plan)]
    /\ UNCHANGED <<events, configs, now, ticks, req, deliveries, corr, sreq, session_vars>>

\* GET /activity/api/events/summary
GetSummary ==
    /\ call = NoCall
    /\ \E plan \in Plans :
         call' = [fn |-> "get_summary", clock |-> DayAfter(now), plan |-> plan,
                  resp |-> get_summary(events, DayAfter(now), plan)]
    /\ UNCHANGED <<events, configs, now, ticks, req, deliveries, corr, sreq, session_vars>>

InitQuery ==
    /\ events \in QueryStores
    /\ configs = <<>>
    /\ now = QueryNowUs
    /\ ticks = 0
    /\ req = [r \in Reqs |-> Idle]
    /\ deliveries = <<>>
    /\ corr = NoCorr
    /\ call = NoCall
    /\ sreq = [x \in Sets |-> Idle]
    /\ SessionIdle

NextQuery ==
    \/ GetEvents
    \/ GetSummary
    \/ Tick

SpecQuery == InitQuery /\ [][NextQuery]_vars

(***************************************************************************)
(* The shared UniFi session: the coroutines get_shared_client,             *)
(* invalidate_shared_client and save_unifi_config on one event loop.  A    *)
(* step runs a coroutine from one await to the next.                       *)
(***************************************************************************)
\* The calls of a behaviour: each coroutine is called once.
Gets == {"g1", "g2", "g3"}
Invalidations == {"i1"}
Saves == {"s1", "s2"}

\* UniFiClient(...): a client built from the credentials saved as number
\* cred, its aiohttp session not yet opened.
NewClient(cred) == [cred |-> cred, session |-> "none"]

\* client.connect() that succeeded: the session is open.
Connect(cs, c) == [cs EXCEPT ![c].session = "open"]

\* client.disconnect(): the session is closed.
Disconnect(cs, c) == [cs EXCEPT ![c].session = "closed"]

\* _shared_client._session is not None and not _shared_client._session.closed
Live(c) == clients[c].session = "open"

InFlight(t) == task[t].pc \notin {"idle", "done"}

\* The gets that are between call and return now, while an invalidation
\* disconnects a client, have `overlapped` set.
Overlapped(ts) ==
    [t \in Tasks |-> IF t \in Gets /\ InFlight(t)
                     THEN [ts[t] EXCEPT !.overlapped = TRUE] ELSE ts[t]]

\* A get that hands back whatever _shared_client names, open or not.
GetStart_NoClosedTest(t) ==
    /\ t \in Gets /\ task[t].pc = "idle"
    /\ IF shared_client # NoClient
       THEN task' = [task EXCEPT ![t].pc = "done", ![t].ret = shared_client,
                                 ![t].saved = unifi_config,
                                 ![t].overlapped = FALSE]
       ELSE task' = [task EXCEPT ![t].pc = "read_config", ![t].ret = NoClient,
                                 ![t].saved = unifi_config,
                                 ![t].overlapped = FALSE]
    /\ UNCHANGED <<shared_client, clients, unifi_config, webhook_vars>>

\* get_shared_client() up to its first await: the live client is returned
\* at once; a client whose session is closed is disconnected first; with no
\* client the configuration is read.  `saved` keeps the configuration that
\* was saved when the call began.
GetStart(t) ==
    /\ t \in Gets /\ task[t].pc = "idle"
    /\ IF shared_client # NoClient /\ Live(shared_client)
       THEN task' = [task EXCEPT ![t].pc = "done", ![t].ret = shared_client,
                                 ![t].saved = unifi_config,
                                 ![t].overlapped = FALSE]
       ELSE IF shared_client # NoClient
       THEN task' = [task EXCEPT ![t].pc = "disconnect", ![t].ret = NoClient,
                                 ![t].client = shared_client,
                                 ![t].saved = unifi_config,
                                 ![t].overlapped = FALSE]
       ELSE task' = [task EXCEPT ![t].pc = "read_config", ![t].ret = NoClient,
                                 ![t].saved = unifi_config,
                                 ![t].overlapped = FALSE]
    /\ UNCHANGED <<shared_client, clients, unifi_config, webhook_vars>>

\* await _shared_client.disconnect() of the stale client returns;
\* _shared_client = None.
GetCleanUp(t) ==
    /\ t \in Gets /\ task[t].pc = "disconnect"
    /\ clients' = Disconnect(clients, task[t].client)
    /\ shared_client' = NoClient
    /\ task' = [task EXCEPT ![t].pc = "read_config"]
    /\ UNCHANGED <<unifi_config, webhook_vars>>

\* The SELECT of the configuration returns: without a row the call returns
\* None; with one, the credentials are decrypted, and when that raises the
\* call returns None; otherwise the client is built and client.connect()
\* begins.
GetReadConfig(t) ==
    /\ t \in Gets /\ task[t].pc = "read_config"
    /\ IF unifi_config = NoConfig
       THEN /\ task' = [task EXCEPT ![t].pc = "done", ![t].ret = NoClient]
            /\ UNCHANGED clients
       ELSE \E decrypted \in BOOLEAN :
              IF decrypted
              THEN /\ clients' = Append(clients, NewClient(unifi_config))
                   /\ task' = [task EXCEPT ![t].pc = "connect",
                                           ![t].client = Len(clients) + 1]
              ELSE /\ task' = [task EXCEPT ![t].pc = "done", ![t].ret = NoClient]
                   /\ UNCHANGED clients
    /\ UNCHANGED <<shared_client, unifi_config, webhook_vars>>

\* await client.connect() returns: connected, the client becomes
\* _shared_client and is returned; not connected, it is disconnected and
\* None is returned.
GetConnected(t) ==
    /\ t \in Gets /\ task[t].pc = "connect"
    /\ \E connected \in BOOLEAN :
         IF connected
         THEN /\ clients' = Connect(clients, task[t].client)
              /\ shared_client' = task[t].client
              /\ task' = [task EXCEPT ![t].pc = "done", ![t].ret = task[t].client]
         ELSE /\ clients' = Disconnect(clients, task[t].client)
              /\ task' = [task EXCEPT ![t].pc = "done", ![t].ret = NoClient]
              /\ UNCHANGED shared_client
    /\ UNCHANGED <<unifi_config, webhook_vars>>

\* invalidate_shared_client() up to its await: with a client,
\* _shared_client.disconnect() begins; the session is closed before the
\* coroutine is suspended or when it is resumed.
InvalidateStart(t) ==
    /\ t \in Invalidations /\ task[t].pc = "idle"
    /\ IF shared_client = NoClient
       THEN /\ task' = [task EXCEPT ![t].pc = "done"]
            /\ UNCHANGED clients
       ELSE /\ task' = [Overlapped(task) EXCEPT ![t].pc = "disconnect",
                                               ![t].client = shared_client]
            /\ \E early \in BOOLEAN :
                 clients' = IF early THEN Disconnect(clients, shared_client)
                            ELSE clients
    /\ UNCHANGED <<shared_client, unifi_config, webhook_vars>>

\* await _shared_client.disconnect() returns; _shared_client = None.
InvalidateFinish(t) ==
    /\ t \in Invalidations /\ task[t].pc = "disconnect"
    /\ clients' = Disconnect(clients, task[t].client)
    /\ shared_client' = NoClient
    /\ task' = [Overlapped(task) EXCEPT ![t].pc = "done"]
    /\ UNCHANGED <<unifi_config, webhook_vars>>

\* save_unifi_config(config) up to its SELECT: a body without password
\* and api_key is refused with 400.
SaveStart(t) ==
    /\ t \in Saves /\ task[t].pc = "idle"
    /\ \E valid \in BOOLEAN :
         task' = [task EXCEPT ![t].pc = IF valid THEN "commit" ELSE "done",
                              ![t].ret = IF valid THEN 200 ELSE 400]
    /\ UNCHANGED <<shared_client, clients, unifi_config, webhook_vars>>

\* The row with id 1 is updated or inserted, await db.commit() returns and
\* the handler answers.  The credentials saved are the next ones.
SaveCommit(t) ==
    /\ t \in Saves /\ task[t].pc = "commit"
    /\ unifi_config' = unifi_config + 1
    /\ task' = [task EXCEPT ![t].pc = "done"]
    /\ UNCHANGED <<shared_client, clients, webhook_vars>>

\* The session of a client is closed from outside (it went stale).
SessionLost ==
    /\ \E c \in 1..Len(clients) :
         /\ clients[c].session = "open"
         /\ clients' = Disconnect(clients, c)
    /\ UNCHANGED <<shared_client, unifi_config, task, webhook_vars>>

NextSession ==
    \/ \E t \in Gets : GetStart(t)
    \/ \E t \in Gets : GetCleanUp(t)
    \/ \E t \in Gets : GetReadConfig(t)
    \/ \E t \in Gets : GetConnected(t)
    \/ \E t \in Invalidations : InvalidateStart(t)
    \/ \E t \in Invalidations : InvalidateFinish(t)
    \/ \E t \in Saves : SaveStart(t)
    \/ \E t \in Saves : SaveCommit(t)
    \/ SessionLost

SpecSession == Init /\ [][NextSession]_vars

(***************************************************************************)
(* Smart detections: Protect webhooks with smartDetectTypes, served one    *)
(* after the other, while the notification policy is being configured.     *)
(***************************************************************************)
\* Protect events with and without detected types, and one Access event.
SmartBodies ==
    [ep \in {"access", "protect"} |->
        IF ep = "access" THEN {AccessGranted}
        ELSE {ProtectPayload(t, g) : t \in {S_smartDetectZone, S_motion},
                                     g \in SmartTypes}]

\* Settings bodies that enable the policy with and without a destination
\* and that turn the person switch off and on.
PolicyBodies ==
    SettingsBodies \cup
    {JObj([enabled |-> TRUE]),
     JObj([event_person_detected |-> FALSE]),
     JObj([event_person_detected |-> TRUE])}

StartSmart(r) == StartFrom(r, SmartBodies)

UpdatePolicy == UpdateFrom(PolicyBodies)

NextSmart ==
    \/ StartSmart("r1")
    \/ StoreSelect("r1")
    \/ CommitInsert("r1")
    \/ Notify("r1")
    \/ Respond("r1")
    \/ Finish("r1")
    \/ UpdatePolicy

SpecSmart == Init /\ [][NextSmart]_vars

(***************************************************************************)
(* Both sources at once: webhooks of the access system and of the video    *)
(* system whose events carry ids of their own, some of them equal, or no   *)
(* id at all.                                                              *)
(***************************************************************************)
\* An id that both sources hand out.
SharedId == JStr(W("x1"))

\* {"type": "access.logs.add", "data": {"id": "x1", "actor": {"id": "u1"}}}
AccessShared ==
    JObj([type |-> JStr(S_access_logs_add),
          data |-> JObj([id |-> SharedId, actor |-> JObj([id |-> U1])])])

\* {"type": "motion", "data": {"id": "x1", "camera": "c1"}}
ProtectShared ==
    JObj([type |-> JStr(S_motion),
          data |-> JObj([id |-> SharedId, camera |-> Cam1])])

\* {"type": "motion", "data": {"camera": "u1"}}: no id, and the camera is
\* named like the actor of AccessDeniedBare.
ProtectBare ==
    JObj([type |-> JStr(S_motion), data |-> JObj([camera |-> U1])])

CrossBodies ==
    [ep \in {"access", "protect"} |->
        IF ep = "access" THEN {AccessShared, AccessGranted, AccessDeniedBare}
        ELSE {ProtectShared, ProtectPerson, ProtectBare}]

StartCross(r) == StartFrom(r, CrossBodies)

NextCross ==
    \/ \E r \in Reqs : StartCross(r)
    \/ \E r \in Reqs : StoreSelect(r)
    \/ \E r \in Reqs : CommitInsert(r)
    \/ \E r \in Reqs : Notify(r)
    \/ \E r \in Reqs : Respond(r)

SpecCross == Init /\ [][NextCross]_vars

(***************************************************************************)
(* Synthesized ids: two calls of the normalizers with payloads that carry  *)
(* no id of their own.                                                     *)
(***************************************************************************)
\* The actor and camera ids of the payloads: none, "a" and "a-b".
KeyIds == {JNull, JStr(<<"a">>), JStr(<<"a", "-", "b">>)}

\* Their event types: "b", "a-b" and "b-c".
KeyTypes == {<<"b">>, <<"a", "-", "b">>, <<"b", "-", "c">>}

\* Their timestamps, in epoch milliseconds.
KeyStamps == {30000, 47000}

\* {"type": type, "data": {"actor": {"id": id}, "timestamp": ms}} for
\* the access system and {"type": type, "data": {"camera": id,
\* "timestamp": ms}} for the video system; without the id when it is none.
KeyPayload(ep, id, type, ms) ==
    JObj([type |-> JStr(type),
          data |-> IF id = JNull THEN JObj([timestamp |-> JInt(ms)])
                   ELSE IF ep = "access"
                   THEN JObj([actor |-> JObj([id |-> id]), timestamp |-> JInt(ms)])
                   ELSE JObj([camera |-> id, timestamp |-> JInt(ms)])])

KeyPayloads(ep) ==
    {KeyPayload(ep, id, type, ms) : id \in KeyIds, type \in KeyTypes, ms \in KeyStamps}

\* normalize_x(raw) for two payloads.
NormalizeTwo ==
    /\ call = NoCall
    /\ \E ep1, ep2 \in {"access", "protect"} :
         \E p1 \in KeyPayloads(ep1) : \E p2 \in KeyPayloads(ep2) :
           call' = [fn |-> "normalize_two",
                    first |-> Normalize(ep1, p1, now),
                    second |-> Normalize(ep2, p2, now)]
    /\ UNCHANGED <<events, configs, now, ticks, req, deliveries, corr, sreq, session_vars>>

NextKey ==
    \/ NormalizeTwo
    \/ Tick

SpecKey == Init /\ [][NextKey]_vars

(***************************************************************************)
(* Properties of ingestion, checked under Spec.                            *)
(***************************************************************************)
Done(r) == req[r].pc = "done"
Answered200(r) == Done(r) /\ req[r].resp.status = 200

\* The rows of the store that hold the raw payload p.
RowsOf(p) == {i \in 1..Len(events) : events[i].metadata_json = p}

\* C1: when two concurrent webhook requests race to insert the same
\* event_id, exactly one record persists and the request that loses the
\* race completes as a success: no request ends with the store's
\* "already exists" error.
C1_RaceLoserSucceeds ==
    /\ \A i, j \in 1..Len(events) :
          events[i].event_id = events[j].event_id => i = j
    /\ \A r \in Reqs : Done(r) => req[r].resp.exc # "IntegrityError"

\* C2: in every reachable state of the event store, whatever the number and
\* interleaving of webhook requests on both endpoints, no two stored
\* records have the same event_id.
C2_EventIdUnique ==
    \A i, j \in 1..Len(events) :
        events[i].event_id = events[j].event_id => i = j

\* C2 witness: two requests raced for one event_id; one stored the record
\* and the other's insert was rejected by the store.
C2_Witness ==
    \E r1, r2 \in Reqs :
        /\ r1 # r2
        /\ Done(r1) /\ req[r1].resp.exc = "IntegrityError"
        /\ req[r2].inserted >= 1
        /\ req[r1].items = req[r2].items
        /\ Len(events) >= 1

\* C3: idempotence.  When a request delivers again, to the same endpoint,
\* the payload of a request that was answered before it arrived, and both
\* are accepted, the second delivery stores nothing and every item of the
\* payload has exactly one stored record.
C3_Idempotent ==
    \A r1, r2 \in Reqs :
        ( /\ Answered200(r1) /\ Answered200(r2)
          /\ r1 \in req[r2].after
          /\ req[r1].ep = req[r2].ep
          /\ req[r1].items = req[r2].items )
        => /\ req[r2].inserted = 0
           /\ \A k \in 1..Len(req[r2].items) :
                 Cardinality(RowsOf(req[r2].items[k])) = 1

\* C4: the response's `received` is the number of items of the batch and
\* `stored` is the number of items this request newly inserted; duplicates
\* are not counted in `stored`.
C4_ResponseCounts ==
    \A r \in Reqs :
        Answered200(r) => /\ req[r].resp.received = Len(req[r].items)
                          /\ req[r].resp.stored = req[r].inserted

\* Whether the normalizer of the endpoint accepts the item.
WellFormed(ep, raw) == Normalize(ep, raw, now).exc = "none"

\* C5: batch isolation.  In a batch that holds a malformed item among valid
\* ones, the malformed item does not make the request fail, and every other
\* item of the batch, before and after it, is normalized and stored.
\* (Requests that ended with the store's "already exists" error are left
\* aside.)
C5_BatchIsolation ==
    \A r \in Reqs :
        ( /\ Done(r) /\ req[r].resp.exc # "IntegrityError"
          /\ \E k \in 1..Len(req[r].items) :
                WellFormed(req[r].ep, req[r].items[k]) )
        => /\ req[r].resp.status = 200
           /\ \A k \in 1..Len(req[r].items) :
                 WellFormed(req[r].ep, req[r].items[k])
                 => RowsOf(req[r].items[k]) # {}

\* The deliveries request r attempted.
DeliveriesBy(r) == {i \in 1..Len(deliveries) : deliveries[i].by = r}

\* C14: a delivery failure (timeout, non-success status, transport error)
\* makes send_notification return false and is never raised into the
\* ingestion path: no request ends with the delivery's exception, a request
\* that is answered has all its items stored, and no request attempts the
\* delivery of an event twice.
C14_DeliveryFailureContained ==
    /\ \A i \in 1..Len(deliveries) : ~deliveries[i].ok => ~deliveries[i].result
    /\ \A r \in Reqs :
          /\ Done(r) => req[r].resp.exc \in
                            {"none", "AttributeError", "TypeError",
                             "IntegrityError", "HTTPException"}
          /\ Answered200(r) =>
                \A k \in 1..Len(req[r].items) : RowsOf(req[r].items[k]) # {}
          /\ \A i, j \in DeliveriesBy(r) :
                deliveries[i].event_id = deliveries[j].event_id => i = j

\* C14 witness: the delivery for the first item of a batch of two failed,
\* and the request stored both items and was answered.
C14_Witness ==
    \E r \in Reqs :
        /\ Answered200(r)
        /\ Len(req[r].items) = 2
        /\ req[r].inserted = 2
        /\ \E i \in DeliveriesBy(r) :
              /\ ~deliveries[i].ok
              /\ \E n \in SelectByEventId(events, deliveries[i].event_id) :
                    events[n].metadata_json = req[r].items[1]

\* C15: a delivery is attempted for an event only after the event's insert
\* was committed, and the event stays stored whatever the delivery's
\* outcome: in every state each delivery's event is in the store.
C15_StoredBeforeDelivery ==
    \A i \in 1..Len(deliveries) :
        SelectByEventId(events, deliveries[i].event_id) # {}

\* C15 witness: a delivery failed and its event is in the store.
C15_Witness ==
    \E i \in 1..Len(deliveries) :
        /\ ~deliveries[i].ok /\ ~deliveries[i].result
        /\ SelectByEventId(events, deliveries[i].event_id) # {}

\* The items of request r that ended as Rejected: the item whose
\* normalization raised.
Rejected(r) ==
    IF Done(r) /\ req[r].resp.exc \in {"AttributeError", "TypeError"}
    THEN 1 ELSE 0

\* C16: per-event state machine.  Every item of a finished request ended
\* in exactly one of Rejected, Duplicate or Stored; a notification is
\* attempted only for an item that reached Stored; at most one notification
\* attempt is ever made per event_id.
C16_ItemStateMachine ==
    /\ \A r \in Reqs :
          Done(r) =>
              Len(req[r].items) = Rejected(r) + req[r].dups + req[r].inserted
    /\ \A r \in Reqs :
          req[r].pc # "idle" => Cardinality(DeliveriesBy(r)) <= req[r].inserted
    /\ \A i, j \in 1..Len(deliveries) :
          deliveries[i].event_id = deliveries[j].event_id => i = j

\* Whether the body of request r was malformed: not parseable, or JSON
\* that is neither an object nor an array of objects.
Malformed(r) ==
    \/ req[r].resp = Error400
    \/ \E k \in 1..Len(req[r].items) : ~IsDict(req[r].items[k])

\* C24: a request whose body is malformed is rejected as a whole with a
\* client error (4xx) and stores nothing.
C24_MalformedBodyRejected ==
    \A r \in Reqs :
        (Done(r) /\ Malformed(r)) =>
            /\ req[r].resp.status \in 400..499
            /\ req[r].inserted = 0

(***************************************************************************)
(* Properties of the correlator, checked under SpecCorr.                   *)
(***************************************************************************)
Correlated == corr.called /\ corr.status = 200

\* Whether instant us is not before the lower bound of the request.
NotBeforeSince(us) ==
    IF corr.since = NoSince
    THEN LET s == EpochSeconds(now) - 86400
         IN \/ EpochSeconds(us) > s
            \/ EpochSeconds(us) = s /\ us % 1000000 >= now % 1000000
    ELSE us >= corr.since

\* C6: soundness of the correlation bound.  Every returned pair (A, B) has
\* B.source # A.source, A.occurred_at >= since and
\* 0 <= B.occurred_at - A.occurred_at <= window_seconds, and its
\* seconds_apart is that difference in whole seconds.
C6_CorrelationSound ==
    Correlated =>
        \A k \in 1..Len(corr.rows) :
            LET A == events[corr.rows[k].anchor_id]
                B == events[corr.rows[k].related_id]
                d == B.occurred_at - A.occurred_at
            IN /\ B.source # A.source
               /\ NotBeforeSince(A.occurred_at)
               /\ 0 <= d
               /\ d <= corr.window * 1000000
               /\ corr.rows[k].seconds_apart = d \div 1000000

\* C7: with window_seconds = 0 the correlator produces no pairs, whatever
\* the store holds.
C7_ZeroWindowNoPairs ==
    (Correlated /\ corr.window = 0) => corr.rows = <<>>

\* The pairs (e1, e2) of row ids the specification's algorithm selects.
Qualifying ==
    {p \in (1..Len(events)) \X (1..Len(events)) :
        LET e1 == events[p[1]]
            e2 == events[p[2]]
        IN /\ NotBeforeSince(e1.occurred_at)
           /\ e2.source # e1.source
           /\ e1.occurred_at <= e2.occurred_at
           /\ e2.occurred_at <= e1.occurred_at + corr.window * 1000000}

\* C8: completeness.  When the qualifying pairs do not exceed the limit,
\* each of them appears exactly once in the output.  (Stated for windows of
\* at least one second.)
C8_CorrelationComplete ==
    (Correlated /\ corr.window >= 1 /\ Cardinality(Qualifying) <= corr.limit) =>
        \A p \in Qualifying :
            Cardinality({k \in 1..Len(corr.rows) :
                            /\ corr.rows[k].anchor_id = p[1]
                            /\ corr.rows[k].related_id = p[2]}) = 1

\* How many of n joined rows the statement returns under the LIMIT of the
\* request.
Returned(n) == Len(SqlLimit([i \in 1..n |-> i], corr.limit))

\* C9: no join runs with an unbounded window or result cap: a request is
\* rejected before the join, or the join runs with a window of at most 300
\* seconds and returns at most 200 pairs however many rows it joins.
C9_JoinBounded ==
    corr.called =>
        \/ corr.status = 422
        \/ /\ corr.window <= MaxWindow
           /\ \A n \in 0..(MaxLimit + 1) : Returned(n) <= MaxLimit

\* C10: the output is ordered by anchor occurred_at descending and holds at
\* most `limit` pairs (none for a limit below 1), and no pair left out has
\* an anchor strictly newer than the anchor of a returned pair.
C10_OrderedAndCapped ==
    Correlated =>
        LET anchorAt(k) == events[corr.rows[k].anchor_id].occurred_at
            kept == {<<corr.rows[k].anchor_id, corr.rows[k].related_id>> :
                        k \in 1..Len(corr.rows)}
        IN /\ \A k, m \in 1..Len(corr.rows) : k < m => anchorAt(k) >= anchorAt(m)
           /\ Len(corr.rows) <= (IF corr.limit < 0 THEN 0 ELSE corr.limit)
           /\ \A p \in JoinPairs(events, corr.window, SinceText(corr.since, StoredText(now))) \ kept :
                 \A k \in 1..Len(corr.rows) :
                     events[p[1]].occurred_at <= anchorAt(k)

(***************************************************************************)
(* Properties of repeated correlate requests, checked under SpecDet.       *)
(***************************************************************************)
\* C11: correlator determinism.  Two correlate requests with the same
\* window_seconds, since (given or omitted) and limit against an unchanged
\* store return the same pairs in the same order.
C11_Deterministic ==
    (corr.called /\ corr.again) => corr.rows = corr.first_rows


(***************************************************************************)
(* Properties of the rule matcher, checked under SpecRule.                 *)
(***************************************************************************)
RuleCalled == call.fn = "_should_notify"

\* The switches registered for an event's (source, action-class): one per
\* plain action, and for protect actions the switch of every sub-tag
\* (person, vehicle) the action contains.
SwitchesOf(event) ==
    LET a == event.action.v IN
    IF event.source = "access"
    THEN (IF a = A_access_granted THEN {"event_access_granted"} ELSE {})
         \cup (IF a = A_access_denied THEN {"event_access_denied"} ELSE {})
         \cup (IF a = A_door_held_open THEN {"event_door_held_open"} ELSE {})
    ELSE (IF a = A_doorbell_ring THEN {"event_doorbell_ring"} ELSE {})
         \cup (IF a = A_motion_detected THEN {"event_motion"} ELSE {})
         \cup (IF \E i \in 1..Len(a) : a[i] = "person"
               THEN {"event_person_detected"} ELSE {})
         \cup (IF \E i \in 1..Len(a) : a[i] = "vehicle"
               THEN {"event_vehicle_detected"} ELSE {})

\* C12: the rule matcher fires for an event if and only if the policy is
\* enabled, a destination is configured and a switch registered for the
\* event's (source, action-class) is true; an event without a registered
\* switch never fires.
C12_RuleMatch ==
    RuleCalled =>
        (call.result <=>
            /\ call.config.enabled
            /\ Truthy(call.config.webhook_url)
            /\ \E sw \in SwitchesOf(call.event) : call.config[sw])

\* C12 witness: a protect event with two sub-tags fired through the person
\* switch while the vehicle switch was off.
C12_Witness ==
    /\ RuleCalled /\ call.result
    /\ call.event.action.v = A_smart_detect \o Colon \o W("vehicle") \o Comma \o W("person")
    /\ call.config.event_person_detected
    /\ ~call.config.event_vehicle_detected

Flip(config, sw) == [config EXCEPT ![sw] = ~config[sw]]

\* C13: rule toggling.  For an event and a policy that is enabled with a
\* destination, flipping a switch that matches the event's
\* (source, action-class) changes the fire/no-fire outcome, and flipping any
\* other single switch leaves it unchanged.
C13_RuleToggling ==
    (RuleCalled /\ call.config.enabled /\ Truthy(call.config.webhook_url)) =>
        \A sw \in Switches :
            LET flipped == should_notify(call.event, Flip(call.config, sw))
            IN IF sw \in SwitchesOf(call.event)
               THEN flipped # call.result
               ELSE flipped = call.result

(***************************************************************************)
(* Properties of all endpoints together, checked under SpecOps, and of the *)
(* settings endpoints, checked under SpecSettings.                         *)
(***************************************************************************)
\* C17: immutability of stored events.  No step of any endpoint changes a
\* field of a stored record or removes one; the store only grows.
C17_Immutable ==
    [][/\ Len(events') >= Len(events)
       /\ \A i \in 1..Len(events) : events'[i] = events[i]]_vars

\* C17 witness: a webhook request met a duplicate of a stored record while
\* the policy exists and after a read endpoint was served.
C17_Witness ==
    /\ Len(events) >= 1
    /\ req["r1"].pc \in {"loop", "done"} /\ req["r1"].dups >= 1
    /\ configs # <<>>
    /\ call.fn = "get_events"

\* C18: single policy record.  In every reachable state, also when two
\* first accesses of the settings endpoints overlap, the policy table holds
\* at most one record.
C18_SinglePolicy == Len(configs) <= 1

\* C19: a settings write changes exactly the allow-listed fields present in
\* the request body to the supplied values: when an update commits, every
\* field of the policy record (the one the settings are read from) that is
\* allow-listed and named in the body has the supplied value, and every
\* other field, `id` included, keeps its previous value.
C19_WriteFrame ==
    [][\A s \in Sets :
          (sreq[s].pc = "commit" /\ sreq'[s].pc = "done") =>
              \A k \in DOMAIN configs'[1] :
                  configs'[1][k] =
                      IF k \in AllowedKeys /\ k \in DOMAIN sreq[s].body.v
                      THEN sreq[s].body.v[k]
                      ELSE configs[1][k]]_vars

\* C27: correlate, query, summary and health requests are read-only: a step
\* in which one of them is served leaves the stored events and the policy
\* record as they were.
C27_ReadOnly ==
    [][(call' # call /\ call'.fn \in ReadEndpoints) =>
           (events' = events /\ configs' = configs)]_vars

\* C27 witness: health was served from a store that holds an event, and
\* the policy record exists.
C27_Witness ==
    /\ call.fn = "health"
    /\ call.total >= 1
    /\ Len(events) = call.total
    /\ configs # <<>>

\* The policy record as _get_or_create_webhook_config inserted it, with no
\* update applied since.
Pristine == configs # <<>> /\ configs[1] = ConfigRow(<<>>)

\* C31: a policy record that was lazily created and never updated has
\* enabled = false and no destination, and while the policy is in that
\* state no step attempts a delivery, whatever events are stored.
C31_DefaultDisabled ==
    [][Pristine => /\ ~configs[1].enabled
                   /\ configs[1].webhook_url = JNull
                   /\ deliveries' = deliveries]_vars

\* C31 witness: a webhook request stored an event and went past its
\* notification while the policy record is the one lazily created.
C31_Witness ==
    /\ Pristine
    /\ req["r1"].pc \in {"loop", "done"}
    /\ req["r1"].inserted >= 1
    /\ deliveries = <<>>

(***************************************************************************)
(* Properties of the normalizers, checked under SpecNorm.                  *)
(***************************************************************************)
Normalized == call.fn = "normalize" /\ call.result.exc = "none"

\* The timestamp a payload carries (the payloads carry at most one), and
\* JNull when it carries none.
SuppliedTs(payload) ==
    LET data == Get(payload, "data", EmptyDict)
        found == {Get(data, "start", JNull), Get(data, "timestamp", JNull),
                  Get(payload, "timestamp", JNull)} \ {JNull}
    IN IF found = {} THEN JNull ELSE CHOOSE ts \in found : TRUE

\* Whether a timestamp value is an ISO-8601 string, and the instant it names.
IsIso(ts) == ts.t = "str" /\ \E us \in SourceInstants : ts.v = IsoString(us)
IsoInstant(ts) == CHOOSE us \in SourceInstants : ts.v = IsoString(us)

\* C20: timestamp normalization.  For both normalizers, when the payload
\* carries a timestamp as an epoch-millisecond integer or as an ISO-8601
\* string, occurred_at is the instant the source supplied; occurred_at is
\* the time of ingestion only when the timestamp is missing or unparsable.
C20_TimestampNormalized ==
    (Normalized /\ IsDict(call.payload)) =>
        LET ts == SuppliedTs(call.payload)
            at == call.result.ev.occurred_at
        IN IF ts.t = "int" THEN at = ts.v * 1000
           ELSE IF IsIso(ts) THEN at = IsoInstant(ts)
           ELSE at = call.now

\* The readings of the clock at which a delivery can be normalized.
IngestTimes == {StartUs + k * TickUs : k \in 0..MaxTicks}

\* Whether a payload carries an event id of its own.
HasOwnId(payload) ==
    Truthy(Get(Get(payload, "data", payload), "id", JNull))

\* C21: deterministic synthesized id.  When a payload omits its own event
\* id, normalizing it again at any other ingestion time yields the same
\* event_id.
C21_SynthesizedIdStable ==
    (Normalized /\ IsDict(call.payload) /\ ~HasOwnId(call.payload)) =>
        \A t \in IngestTimes :
            Normalize(call.ep, call.payload, t).ev.event_id
                = call.result.ev.event_id

\* The vendor types of each source's lookup table.
MappedTypes(ep) ==
    IF ep = "access"
    THEN {S_access_logs_add, S_access_logs_denied, S_access_door_unlock,
          S_access_door_open, S_access_door_close, S_access_door_held_open,
          S_access_remote_view_change}
    ELSE {S_ring, S_motion, S_smartDetectZone, S_smartDetectLine, S_recording,
          S_camera}

\* The canonical slug of a mapped vendor type.
CanonicalSlug(ep, type) ==
    IF ep = "access" THEN AccessActionMap(type, <<>>)
    ELSE ProtectActionMap(JStr(type)).v

\* C22: action normalization, for both sources.  For an event without
\* detection tags, a vendor type of the source's lookup table maps to its
\* canonical slug, and any other type passes through with its dots replaced
\* by underscores: the action of an unknown type contains no dot.
C22_ActionNormalized ==
    ( /\ Normalized /\ IsDict(call.payload)
      /\ IsStr(call.result.ev.raw_event_type)
      /\ IsDict(Get(call.payload, "data", call.payload))
      /\ ~Truthy(Get(Get(call.payload, "data", call.payload),
                     "smartDetectTypes", JNull)) )
    => LET type == call.result.ev.raw_event_type.v
           action == call.result.ev.action.v
       IN IF type \in MappedTypes(call.ep)
          THEN action = CanonicalSlug(call.ep, type)
          ELSE /\ action = ReplaceDots(type)
               /\ \A i \in 1..Len(action) : action[i] # "."

\* C23: normalizer totality.  For a payload item that is a JSON object of
\* any shape, the normalizer does not raise, and the event it returns has a
\* non-null event_id, source, event_type and occurred_at and a string as
\* action.
C23_NormalizerTotal ==
    (call.fn = "normalize" /\ IsDict(call.payload)) =>
        /\ call.result.exc = "none"
        /\ call.result.ev.event_id # <<>>
        /\ call.result.ev.source \in {"access", "protect"}
        /\ call.result.ev.event_type \in {"physical_access", "video_event"}
        /\ IsStr(call.result.ev.action)
        /\ call.result.ev.occurred_at >= 0

(***************************************************************************)
(* Properties of the query API, checked under SpecQuery.                   *)
(***************************************************************************)
Queried == call.fn = "get_events" /\ call.resp.status = 200

\* The instant an ISO-8601 string names; one without offset is UTC.
InstantOf(t) == IF t.off = Naive THEN t.wall ELSE t.wall - t.off * 1000000

\* Whether the column value holds x as a substring.
HasSubstring(value, x) == value.t # "null" /\ Contains(PyStr(value), x)

\* Whether a stored event matches every supplied filter.
Matches(row, p) ==
    /\ p.source # "" => row.source = p.source
    /\ p.action # NoFilter => HasSubstring(row.action, p.action)
    /\ p.user_id # NoFilter => HasSubstring(row.user_id, p.user_id)
    /\ p.location # NoFilter => HasSubstring(row.location, p.location)
    /\ p.since.kind = "iso" => row.occurred_at >= InstantOf(p.since)
    /\ p.until.kind = "iso" => row.occurred_at <= InstantOf(p.until)

\* The positions [offset, offset + limit) of a sequence, counted from 0.
PageOf(rows, offset, limit) ==
    LET lo == IF offset < 0 THEN 1 ELSE offset + 1
        hi == IF offset + limit > Len(rows) THEN Len(rows) ELSE offset + limit
    IN IF lo > hi THEN <<>> ELSE SubSeq(rows, lo, hi)

\* C25: the events a query returns are exactly the stored events that match
\* every supplied filter (source exactly; action, actor id and location by
\* substring; occurred_at within [since, until]), newest first, cut to the
\* page [offset, offset + limit); total is the number of all matching events.
C25_EventQuery ==
    Queried =>
        LET p == call.params
            matching == {i \in 1..Len(events) : Matches(events[i], p)}
        IN /\ call.resp.total = Cardinality(matching)
           /\ \E plan \in Plans :
                LET page == PageOf(NewestFirst(events, matching, plan),
                                   p.offset, p.limit)
                IN call.resp.events = [k \in 1..Len(page) |-> events[page[k]]]

\* A query that filters on the row's own source, action and actor id and on
\* nothing else, from the first position on.
OwnFilter(row, p) ==
    /\ p.source = row.source
    /\ p.action = PyStr(row.action)
    /\ p.user_id = (IF row.user_id.t = "null" THEN NoFilter ELSE PyStr(row.user_id))
    /\ p.location = NoFilter
    /\ p.since = NoTime
    /\ p.until = NoTime
    /\ p.offset = 0

\* C26: a stored event is among the events returned by a query that filters
\* on the event's own source, action and actor id, when the limit is large
\* enough for the matches.
C26_RoundTrip ==
    Queried =>
        \A i \in 1..Len(events) :
            (OwnFilter(events[i], call.params) /\ call.params.limit >= call.resp.total)
                => \E k \in 1..Len(call.resp.events) :
                       call.resp.events[k].event_id = events[i].event_id

\* An event was asked for by its own fields and came back, from a store
\* that holds another event the filter leaves out.
C26_Witness ==
    /\ Queried
    /\ call.resp.total < Len(events)
    /\ \E i \in 1..Len(events) :
         /\ OwnFilter(events[i], call.params)
         /\ call.params.limit >= call.resp.total
         /\ \E k \in 1..Len(call.resp.events) :
              call.resp.events[k].event_id = events[i].event_id

Summarized == call.fn = "get_summary"

\* Whether the row's occurred_at lies in the 24 hours before the clock
\* reading of the summary request.
InTrailingWindow(row) ==
    LET s == EpochSeconds(row.occurred_at)
        u == row.occurred_at % 1000000
    IN \/ s > call.clock[1] - 24 * 3600
       \/ s = call.clock[1] - 24 * 3600 /\ u >= call.clock[2]

WindowRows == {i \in 1..Len(events) : InTrailingWindow(events[i])}

\* The actors of the window and the events of each.
WindowActors == {events[i].user_id : i \in WindowRows} \ {JNull}
EventsOfActor(a) == {i \in WindowRows : events[i].user_id = a}

\* C28: in a summary, each (source, action) count is the number of stored
\* events with that source and action in the trailing window, each
\* per-source total is the sum of that source's counts, the top actors are
\* those with the most events in the window (at most N, none without actor
\* id), and the recent events are the N newest stored events.
C28_SummaryAggregate ==
    Summarized =>
        LET r == call.resp
            listed == {r.top_users[k].user_id : k \in 1..Len(r.top_users)}
        IN /\ \A k \in 1..Len(r.breakdown) :
                r.breakdown[k].count =
                    Cardinality({i \in WindowRows :
                                    /\ events[i].source = r.breakdown[k].source
                                    /\ events[i].action = r.breakdown[k].action})
           /\ \A i \in WindowRows : \E k \in 1..Len(r.breakdown) :
                /\ events[i].source = r.breakdown[k].source
                /\ events[i].action = r.breakdown[k].action
           /\ \A s \in DOMAIN r.totals_24h :
                r.totals_24h[s] = SumOf(r.breakdown, s)
           /\ Len(r.top_users) <= SummaryN
           /\ JNull \notin listed
           /\ \A a \in listed : \A b \in WindowActors \ listed :
                Cardinality(EventsOfActor(a)) >= Cardinality(EventsOfActor(b))
           /\ WindowActors \ listed # {} => Len(r.top_users) = SummaryN
           /\ \E plan \in Plans :
                LET newest == SqlLimit(NewestFirst(events, 1..Len(events), plan),
                                       SummaryN)
                IN r.recent_events = [k \in 1..Len(newest) |-> events[newest[k]]]

(***************************************************************************)
(* Properties of the shared session, checked under SpecSession.            *)
(***************************************************************************)
\* A get returns a client in this step.
Returns(t) ==
    /\ t \in Gets
    /\ task[t].pc # "done" /\ task'[t].pc = "done"
    /\ task'[t].ret # NoClient

\* C29: whatever the interleaving of get_shared_client and
\* invalidate_shared_client calls, a client that get_shared_client returns
\* is not closed at the moment it is returned, also when an invalidation
\* ran while the get was in flight.
C29_NoClosedHandle ==
    [][\A t \in Gets :
          Returns(t) => clients'[task'[t].ret].session = "open"]_vars

\* C29 witness: a get returned a client although an invalidation ran
\* between its call and its return.
C29_Witness ==
    \E t \in Gets :
        /\ task[t].pc = "done"
        /\ task[t].ret # NoClient
        /\ task[t].overlapped

\* C30: a get_shared_client call that begins after a configuration save
\* has completed returns a client built from the credentials of that save
\* (or of a later one), never one built from an earlier configuration.
C30_FreshCredentials ==
    \A t \in Gets :
        (task[t].pc = "done" /\ task[t].ret # NoClient)
            => clients[task[t].ret].cred >= task[t].saved

\* C33: every connected client that get_shared_client created is the
\* installed singleton: no second client is logged in beside it, and none
\* is overwritten while still connected.
C33_SingleSession ==
    \A c \in 1..Len(clients) :
        clients[c].session = "open" => shared_client = c

\* Get t takes the step.
Steps(t) == task'[t] # task[t]

\* Get t returns None in this step: no configuration, a failed decryption
\* or a failed connect.
Fails(t) ==
    /\ t \in Gets
    /\ task[t].pc \in {"read_config", "connect"}
    /\ task'[t].pc = "done"
    /\ task'[t].ret = NoClient

\* C34: a get that fails (no configuration, decryption or connect failed)
\* returns None and leaves the singleton empty, and a call that finds it
\* empty starts from reading the configuration; a call that finds a live
\* client installed returns that instance at once, reading no
\* configuration and connecting nothing.
C34_FailurePaths ==
    [][\A t \in Gets :
          /\ Fails(t) => shared_client' = NoClient
          /\ (Steps(t) /\ task[t].pc = "idle" /\ shared_client = NoClient)
                => task'[t].pc = "read_config"
          /\ (Steps(t) /\ task[t].pc = "idle" /\ shared_client # NoClient
                       /\ Live(shared_client))
                => /\ task'[t].pc = "done"
                   /\ task'[t].ret = shared_client
                   /\ UNCHANGED <<shared_client, clients>>]_vars

(***************************************************************************)
(* Properties of smart detections, checked under SpecSmart.                *)
(***************************************************************************)
\* data.smartDetectTypes of a payload, as a sequence of strings.
DetectedTypes(payload) ==
    LET types == Get(Get(payload, "data", payload), "smartDetectTypes", JList(<<>>))
    IN [i \in 1..Len(types.v) |-> types.v[i].v]

\* Every stored Protect event with detected types has the action
\* "smart_detect:" followed by the types.
SmartActions ==
    \A i \in 1..Len(events) :
        (events[i].source = "protect" /\ DetectedTypes(events[i].metadata_json) # <<>>)
            => events[i].action =
                   JStr(<<"smart", "_", "detect", ":">>
                        \o JoinWith(Comma, DetectedTypes(events[i].metadata_json)))

\* Request r has just stored a person detection and is about to notify.
PersonStored(r) ==
    /\ req[r].pc = "notify"
    /\ req[r].ep = "protect"
    /\ \E i \in 1..Len(DetectedTypes(req[r].norm.metadata_json)) :
         DetectedTypes(req[r].norm.metadata_json)[i] = <<"person">>

\* The step makes exactly one delivery attempt, for the event of request r.
OneDelivery(r) ==
    /\ Len(deliveries') = Len(deliveries) + 1
    /\ deliveries'[Len(deliveries')].event_id = req[r].norm.event_id
    /\ \A i \in 1..Len(deliveries) :
         deliveries[i].event_id # req[r].norm.event_id

\* C32 as stated: the action of a Protect event with detected types is
\* "smart_detect:" followed by the types, and when a person detection is
\* newly stored while the policy is enabled and the person switch is on,
\* exactly one delivery is attempted.
C32_SmartDetect ==
    [][/\ SmartActions'
       /\ \A r \in Reqs :
            (/\ PersonStored(r)
             /\ req'[r].pc # "notify"
             /\ configs # <<>>
             /\ configs[1].enabled
             /\ configs[1].event_person_detected) => OneDelivery(r)]_vars

\* C32 amended: as C32, for a policy that is enabled, has a destination
\* configured and has the person switch on.
C32_SmartDetectWithDestination ==
    [][/\ SmartActions'
       /\ \A r \in Reqs :
            (/\ PersonStored(r)
             /\ req'[r].pc # "notify"
             /\ configs # <<>>
             /\ configs[1].enabled
             /\ Truthy(configs[1].webhook_url)
             /\ configs[1].event_person_detected) => OneDelivery(r)]_vars

\* C32 witness: a detection of a vehicle and a person was stored as
\* "smart_detect:vehicle,person", one delivery was attempted for it, and a
\* redelivery of the event was dropped as a duplicate without a second one.
C32_Witness ==
    /\ Len(events) = 1
    /\ events[1].action = JStr(<<"smart", "_", "detect", ":", "vehicle", ",", "person">>)
    /\ Len(deliveries) = 1
    /\ deliveries[1].event_id = events[1].event_id
    /\ req["r1"].pc = "done" /\ req["r1"].dups >= 1

(***************************************************************************)
(* Properties of the two sources together, checked under SpecCross.        *)
(***************************************************************************)
\* Request r finds its next event stored already and drops it.
DropsDuplicate(r) ==
    /\ req[r].pc = "loop"
    /\ req'[r].pc = "loop"
    /\ req'[r].dups = req[r].dups + 1

\* C35: an event of one source is never dropped as the duplicate of an
\* event of the other source: the stored event that makes a request drop
\* its event, having the same event_id, comes from the same source.
C35_SourcesApart ==
    [][\A r \in Reqs :
          DropsDuplicate(r) =>
              \A i \in SelectByEventId(events,
                          Normalize(req[r].ep, Head(req[r].todo), now).ev.event_id) :
                  events[i].source = req[r].ep]_vars

(***************************************************************************)
(* Properties of the synthesized ids, checked under SpecKey.               *)
(***************************************************************************)
\* (source tag, actor/camera id, raw event type, occurred_at truncated to
\* the second) of a normalized event.
KeyOf(ev) ==
    <<ev.source, ev.user_id, ev.raw_event_type, EpochSeconds(ev.occurred_at)>>

\* C36: two events without an id of their own that differ in (source tag,
\* actor/camera id, raw event type, occurred_at truncated to the second)
\* get different synthesized ids (the hash being collision free, different
\* hashed strings).
C36_KeyInjective ==
    (/\ call.fn = "normalize_two"
     /\ call.first.exc = "none"
     /\ call.second.exc = "none"
     /\ KeyOf(call.first.ev) # KeyOf(call.second.ev))
        => call.first.ev.event_id # call.second.ev.event_id

(***************************************************************************)
(* Properties of a batch that stops half way, checked under Spec.          *)
(***************************************************************************)
\* The items of request r that the loop has passed: those before the item
\* it is at, or at which it stopped.
Passed(r) == 1..(Len(req[r].items) - Len(req[r].todo))

\* Every item a request has passed has one stored record.
PassedStored ==
    \A r \in Reqs :
        req[r].pc # "idle" =>
            \A k \in Passed(r) : Cardinality(RowsOf(req[r].items[k])) = 1

\* C37: the items of a batch are passed in array order and each stored
\* item is committed on its own: whenever a request is at, or has stopped
\* with an error at, item k, items 1..k-1 are stored; stored records stay;
\* and a redelivery of the batch stores no second copy of them.
C37_PartialProgress ==
    [][/\ \A i \in 1..Len(events) : i <= Len(events') /\ events'[i] = events[i]
       /\ PassedStored']_vars

====
